---- MODULE Spec2Model ----
(***************************************************************************)
(* A model of the scraping core of StockTracker Pro:                       *)
(*   - the batch driver (ScrapingService.execute_job,                      *)
(*     scrape_multiple_products, scrape_single_product),                   *)
(*   - the shared rate limiter (RateLimiter.acquire),                      *)
(*   - the snapshot / alert coupling (AlertService),                       *)
(*   - the life of one scraper backend, the scrape schedule, and the       *)
(*     parser registry (SiteParserRegistry, _get_site_config),             *)
(*   - concurrent scrapes of one product, BaseScraper.scrape_multiple,     *)
(*   - custom field extraction and the price parsers.                      *)
(* Each part has its own specification (SpecJob, SpecRL, SpecAlert,        *)
(* SpecClock, SpecScraper, SpecSchedule, SpecJobOps, SpecLimitedJob,       *)
(* SpecRegistry, SpecCalls, SpecBatch, SpecExtraction); the variables of   *)
(* the other parts stay at rest.                                           *)
(***************************************************************************)
EXTENDS Integers, Sequences, FiniteSets, TLC

VARIABLES
    job,        \* the ScrapingJob row
    driver,     \* position of execute_job
    tasks,      \* the scrape_single_product tasks made by scrape_multiple_products
    wrappers,   \* the limited_scrape coroutines passed to asyncio.gather
    manual,     \* the manually triggered scrape (trigger_product_scrape)
    clock,      \* time.time(), in seconds
    requests,   \* RateLimiter.requests
    locked,     \* RateLimiter.lock is held
    waiters,    \* the callers queued on RateLimiter.lock, first come first served
    callers,    \* the acquire() calls: position and locals of each caller
    released,   \* observation: the times at which acquire() has returned
    utcnow,     \* datetime.utcnow(), in ticks
    products,   \* the products table: tracking settings and cached values
    snapshots,  \* the product_snapshots table, in insertion (id) order
    alerts,     \* the alerts table, in insertion order
    scraper,    \* one backend instance made by scrape_single_product, and its call
    registry,   \* SiteParserRegistry._parsers, in insertion order
    registerLog,\* observation: the register() calls made, oldest first
    resolved,   \* the last lookup: the site asked for and the answers given
    calls,      \* concurrent scrape_single_product calls for one product
    batch,      \* one BaseScraper.scrape_multiple call: requests and results
    extraction  \* one extract_custom_fields call: mappings and results

jobVars == <<job, driver, tasks, wrappers, manual>>
rlVars == <<clock, requests, locked, waiters, callers, released>>

alertVars == <<utcnow, products, snapshots, alerts>>

scraperVars == <<scraper>>
registryVars == <<registry, registerLog, resolved>>

extraVars == <<calls, batch, extraction>>

vars == <<jobVars, rlVars, alertVars, scraperVars, registryVars, extraVars>>

(***************************************************************************)
(* Bounds                                                                  *)
(***************************************************************************)
MaxTargets == 6     \* longest product_ids list of a job
NCallers == 2       \* concurrent callers of RateLimiter.acquire
MaxAcquires == 5    \* acquire() calls made in one run
TickSecs == 20      \* the clock advances in steps of this many seconds
MaxTime == 100      \* the clock stops here
RequestsPerMinute == 2  \* RateLimiter.requests_per_minute of the modelled limiter
MaxSnapshots == 3   \* snapshots saved in one run
TicksPerDay == 10   \* clock ticks in one UTC day

(***************************************************************************)
(* Program constants                                                       *)
(***************************************************************************)
SemaphoreLimit == 5
WindowSecs == 60
PriceDropPercent == 10
PriceRisePercent == 20

Range(s) == {s[i] : i \in DOMAIN s}

(***************************************************************************)
(* Part 1: jobs and scrapes                                                *)
(***************************************************************************)

\* Product ids: 1..MaxTargets are rows of the products table, MissingProduct
\* is an id with no row.
ProductIds == 1..MaxTargets
MissingProduct == 0

\* JobCreate.product_ids: the lists the model submits.  Lists of distinct
\* ids of every length up to MaxTargets, the list that names product 1
\* twice, and a list that names a product that does not exist.
JobProductLists ==
    {[i \in 1..n |-> i] : n \in 0..MaxTargets}
        \cup {<<1, 1>>, <<1, MissingProduct>>}

ManualProducts == {1}

\* What the transport reports for one fetch.
\*   ok               a page with status < 400
\*   permanent        HTTP 404 / 410
\*   retryable_status any other status >= 400
\*   timeout          httpx.TimeoutException / httpx.ConnectError
FetchOutcomes == {"ok", "permanent", "retryable_status", "timeout"}

\* HttpScraper.scrape: the status errors are raised inside the try block and
\* caught by its own `except Exception`, which returns an error record;
\* timeouts and connection errors are re-raised as RetryableError.
ScrapeReturn(outcome) ==
    CASE outcome = "ok"               -> "data"
      [] outcome = "permanent"        -> "error_data"
      [] outcome = "retryable_status" -> "error_data"
      [] outcome = "timeout"          -> "raises"

\* scrape_single_product, from the return of scraper.scrape to its own return:
\* a record (clean or carrying error_message) is saved and the snapshot is
\* returned; an exception is caught, an error snapshot saved, None returned.
SingleResult(outcome) ==
    CASE ScrapeReturn(outcome) = "data"       -> "snapshot"
      [] ScrapeReturn(outcome) = "error_data" -> "error_snapshot"
      [] ScrapeReturn(outcome) = "raises"     -> "none"

\* isinstance(s, ProductSnapshot) in scrape_multiple_products
IsProductSnapshot(result) == result \in {"snapshot", "error_snapshot"}

\* create_job
NewJob(ids, found) ==
    [found |-> found, product_ids |-> ids, total_products |-> Len(ids),
     status |-> "pending", progress |-> 0,
     successful_scrapes |-> 0, failed_scrapes |-> 0, has_error |-> FALSE]

\* scrape_single_product up to its first suspension: a missing product
\* returns None at once; otherwise the scraper is entered and the call is in
\* flight (initialize, rate limiter, fetch).
StartedTask(pid) ==
    IF pid \in ProductIds
    THEN [pc |-> "in_flight", fetch |-> "none", result |-> "none"]
    ELSE [pc |-> "done", fetch |-> "none", result |-> "none"]

\* The tasks of scrape_multiple_products: one asyncio.create_task per product
\* id, all of them made before the semaphore exists.  The event loop runs
\* them in creation order as soon as the driver suspends in gather, whether
\* or not a limited_scrape holds the semaphore for them.
CreateTasks(ids) == [i \in 1..Len(ids) |-> StartedTask(ids[i])]

\* The limited_scrape coroutines, in the order gather starts them: the first
\* SemaphoreLimit of them take the semaphore and await their task, the others
\* wait for the semaphore.
CreateWrappers(ids) ==
    [i \in 1..Len(ids) |-> IF i <= SemaphoreLimit THEN "holding" ELSE "waiting"]

JobIdle ==
    /\ job = NewJob(<<>>, FALSE)
    /\ driver = "returned"
    /\ tasks = <<>>
    /\ wrappers = <<>>
    /\ manual = [pc |-> "done", pid |-> 0]

InitJob ==
    /\ job \in {NewJob(ids, TRUE) : ids \in JobProductLists}
               \cup {NewJob(<<>>, FALSE)}
    /\ driver = "not_started"
    /\ tasks = <<>>
    /\ wrappers = <<>>
    /\ manual = [pc |-> "idle", pid |-> 0]

Finished(t) == t.pc \in {"done", "cancelled"}

HoldCount == Cardinality({i \in DOMAIN wrappers : wrappers[i] = "holding"})

\* A limited_scrape can take a step: one holding the semaphore whose task has
\* finished, or the first waiting one when the semaphore has a free slot.
\* These steps are already in the event loop's ready queue, so they run
\* before the loop polls for the next network event.
CanRelease(i) == wrappers[i] = "holding" /\ Finished(tasks[i])

CanAcquire(i) ==
    /\ wrappers[i] = "waiting"
    /\ \A j \in 1..(i - 1) : wrappers[j] # "waiting"
    /\ HoldCount < SemaphoreLimit

WrapperReady ==
    driver = "gather" /\ \E i \in DOMAIN wrappers : CanRelease(i) \/ CanAcquire(i)

\* execute_job up to its first suspension: the job is looked up; a missing
\* job returns; otherwise status = "running" is committed,
\* scrape_multiple_products creates its tasks and the driver waits in
\* asyncio.gather.  A failing commit is a driver-level exception, which the
\* handler turns into status = "failed".
ExecuteJobBegin ==
    /\ driver = "not_started"
    /\ \/ /\ ~job.found
          /\ driver' = "returned"
          /\ UNCHANGED <<job, tasks, wrappers>>
       \/ /\ job.found
          /\ job' = [job EXCEPT !.status = "running"]
          /\ tasks' = CreateTasks(job.product_ids)
          /\ wrappers' = CreateWrappers(job.product_ids)
          /\ driver' = "gather"
       \/ /\ job.found
          /\ job' = [job EXCEPT !.status = "failed", !.has_error = TRUE]
          /\ driver' = "returned"
          /\ UNCHANGED <<tasks, wrappers>>
    /\ UNCHANGED <<manual, rlVars, alertVars, scraperVars, registryVars, extraVars>>

\* The fetch of task i ends and scrape_single_product runs to its return.
FinishTask(i, outcome) ==
    /\ i \in DOMAIN tasks
    /\ tasks[i].pc = "in_flight"
    /\ ~WrapperReady
    /\ tasks' = [tasks EXCEPT ![i] = [pc |-> "done", fetch |-> outcome,
                                      result |-> SingleResult(outcome)]]
    /\ UNCHANGED <<job, driver, wrappers, manual, rlVars, alertVars, scraperVars, registryVars, extraVars>>

\* limited_scrape: `async with semaphore` (asyncio.Semaphore is first come,
\* first served), then `await task`.
LimitedScrapeAcquire(i) ==
    /\ driver = "gather"
    /\ i \in DOMAIN wrappers
    /\ CanAcquire(i)
    /\ wrappers' = [wrappers EXCEPT ![i] = "holding"]
    /\ UNCHANGED <<job, driver, tasks, manual, rlVars, alertVars, scraperVars, registryVars, extraVars>>

LimitedScrapeRelease(i) ==
    /\ driver = "gather"
    /\ i \in DOMAIN wrappers
    /\ CanRelease(i)
    /\ wrappers' = [wrappers EXCEPT ![i] = "done"]
    /\ UNCHANGED <<job, driver, tasks, manual, rlVars, alertVars, scraperVars, registryVars, extraVars>>

\* len(snapshots) in execute_job: the results of gather that are snapshots
ValidSnapshots ==
    Cardinality({i \in DOMAIN tasks : IsProductSnapshot(tasks[i].result)})

\* Variant of ExecuteJobFinish that does not wait for all of gather: the
\* results are written as soon as one limited_scrape has finished
ExecuteJobFinish_FirstDone ==
    /\ driver = "gather"
    /\ \E i \in DOMAIN wrappers : wrappers[i] = "done"
    /\ job' = [job EXCEPT !.successful_scrapes = ValidSnapshots,
                          !.failed_scrapes = job.total_products - ValidSnapshots,
                          !.progress = 100,
                          !.status = "completed"]
    /\ driver' = "returned"
    /\ UNCHANGED <<tasks, wrappers, manual, rlVars, alertVars, scraperVars, registryVars, extraVars>>

\* asyncio.gather returns; execute_job writes the results and commits.  A
\* failing commit is caught by the handler, which writes status = "failed".
ExecuteJobFinish ==
    /\ driver = "gather"
    /\ \A i \in DOMAIN wrappers : wrappers[i] = "done"
    /\ \/ job' = [job EXCEPT !.successful_scrapes = ValidSnapshots,
                             !.failed_scrapes = job.total_products - ValidSnapshots,
                             !.progress = 100,
                             !.status = "completed"]
       \/ job' = [job EXCEPT !.successful_scrapes = ValidSnapshots,
                             !.failed_scrapes = job.total_products - ValidSnapshots,
                             !.progress = 100,
                             !.status = "failed", !.has_error = TRUE]
    /\ driver' = "returned"
    /\ UNCHANGED <<tasks, wrappers, manual, rlVars, alertVars, scraperVars, registryVars, extraVars>>

\* The task running execute_job is cancelled while it waits in gather.
\* asyncio.CancelledError is a BaseException: `except Exception` in
\* execute_job does not catch it, so no handler runs and the error leaves
\* execute_job.  gather cancels its children; a limited_scrape that was
\* awaiting its task cancels that task, the tasks behind a limited_scrape
\* still waiting for the semaphore run on.
CancelJob ==
    /\ driver = "gather"
    /\ ~WrapperReady
    /\ \E i \in DOMAIN wrappers : wrappers[i] # "done"
    /\ driver' = "cancelled"
    /\ tasks' = [i \in DOMAIN tasks |->
                   IF wrappers[i] = "holding" /\ ~Finished(tasks[i])
                   THEN [tasks[i] EXCEPT !.pc = "cancelled"]
                   ELSE tasks[i]]
    /\ wrappers' = [i \in DOMAIN wrappers |->
                      IF wrappers[i] = "done" THEN "done" ELSE "cancelled"]
    /\ UNCHANGED <<job, manual, rlVars, alertVars, scraperVars, registryVars, extraVars>>

\* trigger_product_scrape: the background task starts
\* ProductService.scrape_single_product for the product, with no look at the
\* scrapes already running.
TriggerProductScrape(p) ==
    /\ manual.pc = "idle"
    /\ manual' = [pc |-> "in_flight", pid |-> p]
    /\ UNCHANGED <<job, driver, tasks, wrappers, rlVars, alertVars, scraperVars, registryVars, extraVars>>

ManualScrapeFinish ==
    /\ manual.pc = "in_flight"
    /\ manual' = [manual EXCEPT !.pc = "done"]
    /\ UNCHANGED <<job, driver, tasks, wrappers, rlVars, alertVars, scraperVars, registryVars, extraVars>>

NextJob ==
    \/ ExecuteJobBegin
    \/ \E i \in 1..MaxTargets, o \in FetchOutcomes : FinishTask(i, o)
    \/ \E i \in 1..MaxTargets : LimitedScrapeAcquire(i)
    \/ \E i \in 1..MaxTargets : LimitedScrapeRelease(i)
    \/ ExecuteJobFinish
    \/ CancelJob
    \/ \E p \in ManualProducts : TriggerProductScrape(p)
    \/ ManualScrapeFinish

(***************************************************************************)
(* Part 2: the rate limiter                                                *)
(***************************************************************************)

Callers == 1..NCallers

Min(S) == CHOOSE x \in S : \A y \in S : x <= y

\* Observation: the acquire() returns that lie in the 60 seconds ending at t
InWindow(t) == {i \in DOMAIN released : t - released[i] < WindowSecs}

IdleCaller == [pc |-> "idle", now |-> 0, wake |-> 0, due |-> 0, ret |-> 0, calls |-> 0]

RLIdle ==
    /\ clock = 0
    /\ requests = <<>>
    /\ locked = FALSE
    /\ waiters = <<>>
    /\ callers = [c \in Callers |-> IdleCaller]
    /\ released = <<>>

InitRL == RLIdle

CallsMade == Len(released) + Cardinality({c \in Callers : callers[c].pc # "idle"})

\* self.requests = [t for t in self.requests if now - t < 60]
Prune(reqs, now) == SelectSeq(reqs, LAMBDA t : now - t < WindowSecs)

\* 60 - (now - min(self.requests))
WaitTime(reqs, now) == WindowSecs - (now - Min(Range(reqs)))

\* Observation, taken when a caller enters the body of acquire(): if exactly
\* requests_per_minute calls returned in the last 60 seconds, the time at
\* which the oldest of them leaves the window; else 0.
DueTime ==
    IF Cardinality(InWindow(clock)) = RequestsPerMinute
    THEN Min({released[i] : i \in InWindow(clock)}) + WindowSecs
    ELSE 0

\* The body of acquire() under the lock, as far as its first suspension:
\* now is read, the window is pruned; at capacity the caller sleeps with the
\* lock held; otherwise now is recorded, the lock is released and acquire()
\* returns.
AcquireBody(c) ==
    LET now == clock
        pruned == Prune(requests, now)
    IN IF Len(pruned) >= RequestsPerMinute /\ WaitTime(pruned, now) > 0
       THEN /\ requests' = pruned
            /\ locked' = TRUE
            /\ callers' = [callers EXCEPT ![c].pc = "sleeping", ![c].now = now,
                              ![c].wake = now + WaitTime(pruned, now),
                              ![c].due = DueTime]
            /\ UNCHANGED released
       ELSE /\ requests' = Append(pruned, now)
            /\ locked' = FALSE
            /\ callers' = [callers EXCEPT ![c].pc = "idle", ![c].now = now,
                              ![c].due = DueTime, ![c].ret = clock,
                              ![c].calls = @ + 1]
            /\ released' = Append(released, clock)

\* A caller calls acquire().  asyncio.Lock gives the lock at once when it is
\* free and nobody waits for it; otherwise the caller queues.
AcquireCall(c) ==
    /\ callers[c].pc = "idle"
    /\ CallsMade < MaxAcquires
    /\ IF ~locked /\ waiters = <<>>
       THEN AcquireBody(c) /\ UNCHANGED waiters
       ELSE /\ waiters' = Append(waiters, c)
            /\ callers' = [callers EXCEPT ![c].pc = "waiting"]
            /\ UNCHANGED <<requests, locked, released>>
    /\ UNCHANGED <<clock, jobVars, alertVars, scraperVars, registryVars, extraVars>>

\* The first queued caller gets the released lock and runs the body.
LockGranted(c) ==
    /\ ~locked
    /\ waiters # <<>>
    /\ Head(waiters) = c
    /\ waiters' = Tail(waiters)
    /\ AcquireBody(c)
    /\ UNCHANGED <<clock, jobVars, alertVars, scraperVars, registryVars, extraVars>>

\* Variant of AcquireWake that returns from acquire() without leaving the
\* `async with self.lock` block: the lock stays held
AcquireWake_KeepsLock(c) ==
    /\ callers[c].pc = "sleeping"
    /\ clock >= callers[c].wake
    /\ requests' = Append(requests, callers[c].now)
    /\ locked' = TRUE
    /\ callers' = [callers EXCEPT ![c].pc = "idle", ![c].ret = clock,
                                  ![c].calls = @ + 1]
    /\ released' = Append(released, clock)
    /\ UNCHANGED <<clock, waiters, jobVars, alertVars, scraperVars, registryVars, extraVars>>

\* asyncio.sleep(wait_time) is over: the time read before the sleep is
\* recorded, the lock is released and acquire() returns.
AcquireWake(c) ==
    /\ callers[c].pc = "sleeping"
    /\ clock >= callers[c].wake
    /\ requests' = Append(requests, callers[c].now)
    /\ locked' = FALSE
    /\ callers' = [callers EXCEPT ![c].pc = "idle", ![c].ret = clock,
                                  ![c].calls = @ + 1]
    /\ released' = Append(released, clock)
    /\ UNCHANGED <<clock, waiters, jobVars, alertVars, scraperVars, registryVars, extraVars>>

Tick ==
    /\ clock + TickSecs <= MaxTime
    /\ clock' = clock + TickSecs
    /\ UNCHANGED <<requests, locked, waiters, callers, released, jobVars, alertVars, scraperVars, registryVars, extraVars>>

NextRL ==
    \/ \E c \in Callers : AcquireCall(c)
    \/ \E c \in Callers : LockGranted(c)
    \/ \E c \in Callers : AcquireWake(c)
    \/ Tick

(***************************************************************************)
(* Part 3: snapshots and alerts                                            *)
(***************************************************************************)

\* A NULL column.  Prices are amounts >= 0; booleans are kept as the strings
\* "TRUE" / "FALSE" so that a nullable boolean has one type.
NULL == -1
NullBool == "NULL"

TrackedProducts == {1, 2}

\* Tracking settings of product 1 (Product.track_stock, track_price,
\* min_price_threshold, max_price_threshold); product 2 has the defaults.
DefaultSettings ==
    [track_stock |-> TRUE, track_price |-> TRUE,
     min_price_threshold |-> NULL, max_price_threshold |-> NULL]

ProductSettings ==
    { DefaultSettings,
      [DefaultSettings EXCEPT !.min_price_threshold = 90,
                              !.max_price_threshold = 120],
      [DefaultSettings EXCEPT !.track_stock = FALSE],
      [DefaultSettings EXCEPT !.track_price = FALSE,
                              !.min_price_threshold = 90,
                              !.max_price_threshold = 120] }

NewProduct(settings) ==
    [settings |-> settings, current_price |-> NULL,
     is_in_stock |-> NullBool, last_checked |-> NULL]

\* What scraper.scrape hands to _save_snapshot: ScrapedData.price,
\* is_in_stock and whether error_message is set.  A record with
\* error_message carries no fields.
Data(price, stock) == [price |-> price, is_in_stock |-> stock, has_error |-> FALSE]

ErrorData == [price |-> NULL, is_in_stock |-> NullBool, has_error |-> TRUE]

ScrapedDataOf(p) ==
    IF p = 1
    THEN {Data(NULL, NullBool), ErrorData,
          Data(NULL, "TRUE"), Data(NULL, "FALSE"), Data(90, "FALSE")}
         \cup {Data(x, NullBool) : x \in {0, 90, 91, 100, 119, 120}}
    ELSE {Data(100, "TRUE"), Data(90, "FALSE")}

AlertIdle ==
    /\ utcnow = 0
    /\ products = [p \in TrackedProducts |-> NewProduct(DefaultSettings)]
    /\ snapshots = <<>>
    /\ alerts = <<>>

InitAlert ==
    /\ utcnow = 0
    /\ products \in {[p \in TrackedProducts |->
                        NewProduct(IF p = 1 THEN st ELSE DefaultSettings)]
                     : st \in ProductSettings}
    /\ snapshots = <<>>
    /\ alerts = <<>>

UtcDay(t) == t \div TicksPerDay

\* datetime.utcnow().replace(hour=0, minute=0, second=0, microsecond=0)
Midnight(t) == UtcDay(t) * TicksPerDay

\* _save_snapshot: the row gets the next id and created_at = utcnow
NewSnapshot(snaps, pid, data, now) ==
    [id |-> Len(snaps) + 1, product_id |-> pid, price |-> data.price,
     is_in_stock |-> data.is_in_stock, has_error |-> data.has_error,
     created_at |-> now]

\* Mutant of PreviousStockSnapshot: order_by(created_at.asc()), the oldest
\* snapshot with a known status instead of the latest
PreviousStockSnapshot_Oldest(snaps, snap) ==
    LET rows == {i \in DOMAIN snaps :
                    /\ snaps[i].product_id = snap.product_id
                    /\ snaps[i].id < snap.id
                    /\ snaps[i].is_in_stock # NullBool}
    IN IF rows = {} THEN <<>>
       ELSE <<snaps[CHOOSE i \in rows :
                \A j \in rows : snaps[j].created_at >= snaps[i].created_at]>>

\* query(ProductSnapshot).filter(product_id == product.id, id < snapshot.id,
\*     <column>.isnot(None)).order_by(created_at.desc()).first()
\* for the column is_in_stock
PreviousStockSnapshot(snaps, snap) ==
    LET rows == {i \in DOMAIN snaps :
                    /\ snaps[i].product_id = snap.product_id
                    /\ snaps[i].id < snap.id
                    /\ snaps[i].is_in_stock # NullBool}
    IN IF rows = {} THEN <<>>
       ELSE <<snaps[CHOOSE i \in rows :
                \A j \in rows : snaps[j].created_at <= snaps[i].created_at]>>

\* the same query for the column price
PreviousPriceSnapshot(snaps, snap) ==
    LET rows == {i \in DOMAIN snaps :
                    /\ snaps[i].product_id = snap.product_id
                    /\ snaps[i].id < snap.id
                    /\ snaps[i].price # NULL}
    IN IF rows = {} THEN <<>>
       ELSE <<snaps[CHOOSE i \in rows :
                \A j \in rows : snaps[j].created_at <= snaps[i].created_at]>>

\* Mutant of RecentAlert: the time of day is not cut off, so only alerts
\* created at this very instant count as recent
RecentAlert_SinceNow(als, pid, type, now) ==
    \E k \in DOMAIN als :
        /\ als[k].product_id = pid
        /\ als[k].alert_type = type
        /\ als[k].created_at >= now

\* The duplicate check of _create_alert: an alert of the product and type
\* created since today's midnight
RecentAlert(als, pid, type, now) ==
    \E k \in DOMAIN als :
        /\ als[k].product_id = pid
        /\ als[k].alert_type = type
        /\ als[k].created_at >= Midnight(now)

\* _create_alert
CreateAlert(als, pid, type, snap, condition, now) ==
    IF RecentAlert(als, pid, type, now)
    THEN als
    ELSE Append(als, [product_id |-> pid, alert_type |-> type,
                      condition_value |-> condition,
                      trigger_snapshot_id |-> snap.id, created_at |-> now])

\* _check_stock_alerts
CheckStockAlerts(als, settings, snap, snaps, now) ==
    IF ~settings.track_stock \/ snap.is_in_stock = NullBool THEN als
    ELSE LET previous == PreviousStockSnapshot(snaps, snap)
         IN IF previous = <<>> THEN als
            ELSE IF previous[1].is_in_stock = "TRUE" /\ snap.is_in_stock # "TRUE"
                 THEN CreateAlert(als, snap.product_id, "stock_out", snap, NULL, now)
            ELSE IF previous[1].is_in_stock # "TRUE" /\ snap.is_in_stock = "TRUE"
                 THEN CreateAlert(als, snap.product_id, "stock_in", snap, NULL, now)
            ELSE als

\* A Decimal is true in a condition when it is set and not zero
Truthy(x) == x # NULL /\ x # 0

\* Mutant of IsPriceDrop: a strict comparison, price_change_percent < -10
IsPriceDrop_Strict(current, previous) ==
    (current - previous) * 100 < -PriceDropPercent * previous

\* price_change_percent <= -10, for
\* price_change_percent = (current - previous) / previous * 100.  Prices are
\* Numeric(10, 2) columns, for which Decimal's 28 digits keep the comparison
\* exact: it is the comparison of the cross products.
IsPriceDrop(current, previous) ==
    (current - previous) * 100 <= -PriceDropPercent * previous

\* price_change_percent >= 20
IsPriceRise(current, previous) ==
    (current - previous) * 100 >= PriceRisePercent * previous

\* _check_price_alerts: the two threshold checks, then the change against the
\* previous priced snapshot
CheckPriceAlerts(als, settings, snap, snaps, now) ==
    IF ~settings.track_price \/ snap.price = NULL THEN als
    ELSE LET pid == snap.product_id
             a1 == IF /\ Truthy(settings.min_price_threshold)
                      /\ snap.price <= settings.min_price_threshold
                   THEN CreateAlert(als, pid, "price_drop", snap,
                                    settings.min_price_threshold, now)
                   ELSE als
             a2 == IF /\ Truthy(settings.max_price_threshold)
                      /\ snap.price >= settings.max_price_threshold
                   THEN CreateAlert(a1, pid, "price_rise", snap,
                                    settings.max_price_threshold, now)
                   ELSE a1
             previous == PreviousPriceSnapshot(snaps, snap)
         IN IF previous # <<>> /\ Truthy(previous[1].price)
            THEN IF IsPriceDrop(snap.price, previous[1].price)
                 THEN CreateAlert(a2, pid, "price_drop", snap, NULL, now)
                 ELSE IF IsPriceRise(snap.price, previous[1].price)
                 THEN CreateAlert(a2, pid, "price_rise", snap, NULL, now)
                 ELSE a2
            ELSE a2

\* check_and_create_alerts: stock first, then price
CheckAndCreateAlerts(als, settings, snap, snaps, now) ==
    CheckPriceAlerts(CheckStockAlerts(als, settings, snap, snaps, now),
                     settings, snap, snaps, now)

\* Variant of UpdateProductCurrentValues that keeps a cached value when the
\* snapshot has none
UpdateProductCurrentValues_KeepKnown(product, snap) ==
    [product EXCEPT !.current_price = IF snap.price = NULL THEN @ ELSE snap.price,
                    !.is_in_stock = IF snap.is_in_stock = NullBool THEN @
                                    ELSE snap.is_in_stock,
                    !.last_checked = snap.created_at]

\* _update_product_current_values
UpdateProductCurrentValues(product, snap) ==
    [product EXCEPT !.current_price = snap.price,
                    !.is_in_stock = snap.is_in_stock,
                    !.last_checked = snap.created_at]

\* Variant of ScrapeSingleProduct without the test of error_message before
\* the update of the cached values
ScrapeSingleProduct_AlwaysUpdates(p, data, nextDay) ==
    /\ Len(snapshots) < MaxSnapshots
    /\ LET now == IF nextDay THEN Midnight(utcnow) + TicksPerDay ELSE utcnow + 1
           snap == NewSnapshot(snapshots, p, data, now)
       IN /\ UtcDay(now) = IF nextDay THEN UtcDay(utcnow) + 1 ELSE UtcDay(utcnow)
          /\ utcnow' = now
          /\ snapshots' = Append(snapshots, snap)
          /\ alerts' = IF snap.has_error THEN alerts
                       ELSE CheckAndCreateAlerts(alerts, products[p].settings,
                                                 snap, snapshots, now)
          /\ products' = [products EXCEPT
                            ![p] = UpdateProductCurrentValues(@, snap)]
    /\ UNCHANGED <<jobVars, rlVars, scraperVars, registryVars, extraVars>>

\* scrape_single_product from the return of scraper.scrape on: the snapshot
\* is saved, and for a snapshot without error_message the alerts are checked
\* and the product's cached values updated.  Nothing in this stretch
\* suspends, so it is one step.  Successive commits get increasing
\* timestamps: the scrape happens one tick after the last one, or at the
\* start of the next UTC day.
ScrapeSingleProduct(p, data, nextDay) ==
    /\ Len(snapshots) < MaxSnapshots
    /\ LET now == IF nextDay THEN Midnight(utcnow) + TicksPerDay ELSE utcnow + 1
           snap == NewSnapshot(snapshots, p, data, now)
       IN /\ UtcDay(now) = IF nextDay THEN UtcDay(utcnow) + 1 ELSE UtcDay(utcnow)
          /\ utcnow' = now
          /\ snapshots' = Append(snapshots, snap)
          /\ IF snap.has_error
             THEN UNCHANGED <<alerts, products>>
             ELSE /\ alerts' = CheckAndCreateAlerts(alerts, products[p].settings,
                                                    snap, snapshots, now)
                  /\ products' = [products EXCEPT
                                    ![p] = UpdateProductCurrentValues(@, snap)]
    /\ UNCHANGED <<jobVars, rlVars, scraperVars, registryVars, extraVars>>

NextAlert ==
    \E p \in TrackedProducts, nextDay \in BOOLEAN :
        \E data \in ScrapedDataOf(p) : ScrapeSingleProduct(p, data, nextDay)

(***************************************************************************)
(* Properties of part 1                                                    *)
(***************************************************************************)

\* C1: whenever execute_job has returned or raised for an existing job
\* (normally, by an exception in the driver, or by cancellation of the
\* driver), the job's status is "completed" or "failed", never "running".
C1_JobNeverLeftRunning ==
    (job.found /\ driver \in {"returned", "cancelled"})
        => job.status \in {"completed", "failed"}

FetchCount(kind) ==
    Cardinality({i \in DOMAIN tasks : tasks[i].fetch = kind})

\* C2: after execute_job finished normally for a job with N targets of which
\* k failed their fetch permanently (HTTP 404/410) and the other N-k
\* succeeded, successful_scrapes = N-k, failed_scrapes = k, progress = 100
\* and status = "completed".
C2_CountsPermanentFailures ==
    ( /\ job.found
      /\ driver = "returned"
      /\ job.status = "completed"
      /\ \A i \in DOMAIN tasks : tasks[i].fetch \in {"ok", "permanent"} )
    => /\ job.successful_scrapes = FetchCount("ok")
       /\ job.failed_scrapes = FetchCount("permanent")
       /\ job.progress = 100

\* The scrape_single_product calls of the job that have started and have not
\* finished
InProgress == {i \in DOMAIN tasks : tasks[i].pc = "in_flight"}

\* C3: during scrape_multiple_products at most 5 scrape_single_product calls
\* are in progress at any time.
C3_AtMostFiveInProgress == Cardinality(InProgress) <= SemaphoreLimit

\* The scrapes in flight, each with the product it scrapes
InFlightScrapes ==
    {<<"job", i, job.product_ids[i]>> : i \in InProgress}
        \cup (IF manual.pc = "in_flight"
              THEN {<<"manual", 0, manual.pid>>} ELSE {})

\* C4: at no time are two scrapes of the same product in flight at once,
\* whether they come from a job, from a manually triggered scrape or from a
\* product_ids list that names the product twice.
C4_OneInFlightPerProduct ==
    \A a, b \in InFlightScrapes : a[3] = b[3] => a = b

(***************************************************************************)
(* Properties of part 2                                                    *)
(***************************************************************************)

\* C5: under any interleaving of acquire() callers, the number of acquire()
\* calls that return within any rolling 60-second window never exceeds
\* requests_per_minute.
C5_WindowNeverExceeded ==
    \A i \in DOMAIN released :
        Cardinality(InWindow(released[i]) \cap 1..i) <= RequestsPerMinute

\* C6: when requests_per_minute calls have returned in the last 60 seconds,
\* a further acquire() does not return before the oldest of them has left
\* the window.
C6_BlocksUntilOldestLeaves ==
    \A c \in Callers :
        (callers[c].calls > 0 /\ callers[c].pc = "idle")
            => callers[c].ret >= callers[c].due

(***************************************************************************)
(* Properties of part 3                                                    *)
(***************************************************************************)

Max(S) == CHOOSE x \in S : \A y \in S : y <= x

\* The alerts of a type that snapshot i triggered
AlertsBy(i, type) ==
    {k \in DOMAIN alerts :
        alerts[k].trigger_snapshot_id = i /\ alerts[k].alert_type = type}

\* The earlier snapshots of the same product, in insertion order
EarlierSnapshots(i) ==
    {j \in 1..(i - 1) : snapshots[j].product_id = snapshots[i].product_id}

EarlierKnownStock(i) ==
    {j \in EarlierSnapshots(i) : snapshots[j].is_in_stock # NullBool}

EarlierPriced(i) ==
    {j \in EarlierSnapshots(i) : snapshots[j].price # NULL}

\* An alert of the product and type that an earlier snapshot triggered on
\* the UTC day of snapshot i
AlertedEarlierThatDay(i, type) ==
    \E k \in DOMAIN alerts :
        /\ alerts[k].product_id = snapshots[i].product_id
        /\ alerts[k].alert_type = type
        /\ alerts[k].trigger_snapshot_id < i
        /\ UtcDay(alerts[k].created_at) = UtcDay(snapshots[i].created_at)

SettingsOf(i) == products[snapshots[i].product_id].settings

\* C7: a product's first-ever snapshot creates no alert of any type,
\* whatever its price and stock status and whatever price thresholds the
\* product has.
C7_FirstSnapshotNoAlert ==
    \A k \in DOMAIN alerts : EarlierSnapshots(alerts[k].trigger_snapshot_id) # {}

\* C8: at most one alert exists per (product, alert_type) per UTC calendar
\* day.
C8_OneAlertPerTypePerDay ==
    \A k, m \in DOMAIN alerts :
        ( /\ alerts[k].product_id = alerts[m].product_id
          /\ alerts[k].alert_type = alerts[m].alert_type
          /\ UtcDay(alerts[k].created_at) = UtcDay(alerts[m].created_at) )
        => k = m

\* Snapshot i is a price drop of 10% or more against the previous priced
\* snapshot of a product that tracks price
QualifiesAsDrop(i) ==
    /\ SettingsOf(i).track_price
    /\ snapshots[i].price # NULL
    /\ EarlierPriced(i) # {}
    /\ snapshots[Max(EarlierPriced(i))].price > 0
    /\ (snapshots[i].price - snapshots[Max(EarlierPriced(i))].price) * 10
          <= -snapshots[Max(EarlierPriced(i))].price

\* C8 witness: a qualifying price drop created no alert, because a
\* price_drop alert of the product had been created earlier that day.
C8_Witness ==
    \E i \in DOMAIN snapshots :
        /\ QualifiesAsDrop(i)
        /\ AlertedEarlierThatDay(i, "price_drop")
        /\ AlertsBy(i, "price_drop") = {}

StockWentOut(i) ==
    /\ EarlierKnownStock(i) # {}
    /\ snapshots[Max(EarlierKnownStock(i))].is_in_stock = "TRUE"
    /\ snapshots[i].is_in_stock = "FALSE"

StockCameBack(i) ==
    /\ EarlierKnownStock(i) # {}
    /\ snapshots[Max(EarlierKnownStock(i))].is_in_stock = "FALSE"
    /\ snapshots[i].is_in_stock = "TRUE"

HasPreviousPrice(i) ==
    /\ snapshots[i].price # NULL
    /\ EarlierPriced(i) # {}
    /\ snapshots[Max(EarlierPriced(i))].price > 0

ChangeAtMost(i, percent) ==
    (snapshots[i].price - snapshots[Max(EarlierPriced(i))].price) * 100
        <= percent * snapshots[Max(EarlierPriced(i))].price

ChangeAtLeast(i, percent) ==
    (snapshots[i].price - snapshots[Max(EarlierPriced(i))].price) * 100
        >= percent * snapshots[Max(EarlierPriced(i))].price

\* The alerts snapshot i triggered by the change check (the threshold checks
\* store the threshold as condition_value)
DeltaAlertsBy(i) ==
    {k \in DOMAIN alerts :
        /\ alerts[k].trigger_snapshot_id = i
        /\ alerts[k].alert_type \in {"price_drop", "price_rise"}
        /\ alerts[k].condition_value = NULL}

NoEvent == [kind |-> "none", code |-> 0]

\* A scrape_single_product call whose site asks for backend b, at its start:
\* the product is looked up and the backend is made next.  persisted lists
\* the snapshots the call has committed, result is what the call returns.
NewScraper(b) ==
    [backend |-> b, pc |-> "created", step |-> 0, held |-> {},
     init_started |-> FALSE, cleanup_ran |-> FALSE,
     event |-> NoEvent, raised |-> "none", returned |-> "none",
     exit |-> "none", product |-> "found", persisted |-> <<>>,
     result |-> "none"]

ScraperIdle == scraper = [NewScraper("http") EXCEPT !.pc = "exited"]

\* No lookup made yet
NoLookup == [asked |-> FALSE]

RegistryIdle ==
    /\ registry = <<>>
    /\ registerLog = <<>>
    /\ resolved = NoLookup

\* A scrape_multiple call over the requests reqs, before its loop starts
\* events is an observation: what the network did to each request so far
NewBatch(reqs) ==
    [requests |-> reqs, results |-> <<>>, events |-> <<>>, returned |-> FALSE]

\* An extract_custom_fields call over the mappings, before its loop starts;
\* next is the position of the for loop in custom_field_mappings
NewExtraction(mappings) ==
    [mappings |-> mappings, next |-> 1, results |-> <<>>, returned |-> FALSE]

\* A call over nothing that has returned
IdleBatch == [NewBatch(<<>>) EXCEPT !.returned = TRUE]

IdleExtraction == [NewExtraction(<<>>) EXCEPT !.returned = TRUE]

\* No concurrent calls, no batch and no extraction under way
ExtraIdle ==
    /\ calls = <<>>
    /\ batch = IdleBatch
    /\ extraction = IdleExtraction

(***************************************************************************)
(* Specifications                                                          *)
(***************************************************************************)

InitSpecJob == InitJob /\ RLIdle /\ AlertIdle /\ ScraperIdle /\ RegistryIdle /\ ExtraIdle

SpecJob == InitSpecJob /\ [][NextJob]_vars

InitSpecRL == InitRL /\ JobIdle /\ AlertIdle /\ ScraperIdle /\ RegistryIdle /\ ExtraIdle

SpecRL == InitSpecRL /\ [][NextRL]_vars

InitSpecAlert == InitAlert /\ JobIdle /\ RLIdle /\ ScraperIdle /\ RegistryIdle /\ ExtraIdle

SpecAlert == InitSpecAlert /\ [][NextAlert]_vars

(***************************************************************************)
(* Part 4: snapshots under the wall clock                                  *)
(***************************************************************************)

\* created_at is filled by datetime.utcnow() when the row is flushed: the
\* system's wall clock, which the operating system may hold still or set
\* back between two commits.  Here the clock is an input of every scrape.
MaxWallClock == 2

WallClock == 0..MaxWallClock

InitClock ==
    /\ utcnow = 0
    /\ products = [p \in TrackedProducts |-> NewProduct(DefaultSettings)]
    /\ snapshots = <<>>
    /\ alerts = <<>>

\* scrape_single_product from the return of scraper.scrape on, as
\* ScrapeSingleProduct, with the time t read from the wall clock
ScrapeAtWallClock(p, data, t) ==
    /\ Len(snapshots) < MaxSnapshots
    /\ LET snap == NewSnapshot(snapshots, p, data, t)
       IN /\ utcnow' = t
          /\ snapshots' = Append(snapshots, snap)
          /\ IF snap.has_error
             THEN UNCHANGED <<alerts, products>>
             ELSE /\ alerts' = CheckAndCreateAlerts(alerts, products[p].settings,
                                                    snap, snapshots, t)
                  /\ products' = [products EXCEPT
                                    ![p] = UpdateProductCurrentValues(@, snap)]
    /\ UNCHANGED <<jobVars, rlVars, scraperVars, registryVars, extraVars>>

NextClock ==
    \E p \in TrackedProducts, t \in WallClock :
        \E data \in ScrapedDataOf(p) : ScrapeAtWallClock(p, data, t)

InitSpecClock == InitClock /\ JobIdle /\ RLIdle /\ ScraperIdle /\ RegistryIdle /\ ExtraIdle

SpecClock == InitSpecClock /\ [][NextClock]_vars

\* The snapshots the stock check of the newest snapshot may compare with,
\* going by creation time alone: those of the same product with a known
\* stock status that were created no later than it
PriorByTimeStock ==
    LET n == Len(snapshots)
    IN {j \in 1..(n - 1) :
          /\ snapshots[j].product_id = snapshots[n].product_id
          /\ snapshots[j].is_in_stock # NullBool
          /\ snapshots[j].created_at <= snapshots[n].created_at}

PriorByTimePrice ==
    LET n == Len(snapshots)
    IN {j \in 1..(n - 1) :
          /\ snapshots[j].product_id = snapshots[n].product_id
          /\ snapshots[j].price # NULL
          /\ snapshots[j].created_at <= snapshots[n].created_at}

\* previous is one of the latest snapshots of the set prior, or no snapshot
\* when prior is empty
LatestOf(previous, prior) ==
    IF prior = {} THEN previous = <<>>
    ELSE /\ previous # <<>>
         /\ previous[1].id \in prior
         /\ \A j \in prior : snapshots[j].created_at <= previous[1].created_at

\* C11: the snapshot that the stock check and the price-change check of a
\* new snapshot take as their baseline is the latest snapshot of the same
\* product, by creation time, that has the field and was created no later
\* than the new one; insertion ids play no part in the choice.
C11_BaselineByCreationTime ==
    snapshots # <<>> =>
        LET snap == snapshots[Len(snapshots)]
        IN /\ LatestOf(PreviousStockSnapshot(snapshots, snap), PriorByTimeStock)
           /\ LatestOf(PreviousPriceSnapshot(snapshots, snap), PriorByTimePrice)

(***************************************************************************)
(* Part 5: one backend instance and its scrape                             *)
(***************************************************************************)

\* ScraperFactory.create_scraper: 'playwright' if use_javascript else 'http'
Backends == {"http", "playwright"}

CreateScraper(use_javascript) ==
    IF use_javascript THEN "playwright" ELSE "http"

\* The awaited steps of initialize() and what each leaves behind.
\* HttpScraper: the httpx.AsyncClient.  PlaywrightScraper: the playwright
\* driver, the browser, the context, and the route set on the context.
InitSteps(b) ==
    IF b = "http" THEN <<"client">>
    ELSE <<"playwright", "browser", "context", "route">>

\* initialize() of HttpScraper has no await; PlaywrightScraper awaits at
\* every step
InitSuspends(b) == b = "playwright"

\* What the network does to one fetch: a response with a status code, a
\* timeout, a failure to connect
StatusCodes == {200, 399, 400, 403, 404, 410, 500, 503}

Response(code) == [kind |-> "status", code |-> code]

Timeout == [kind |-> "timeout", code |-> 0]

ConnectError == [kind |-> "connect_error", code |-> 0]

FetchEvents == {Response(c) : c \in StatusCodes} \cup {Timeout, ConnectError}

\* The error class that scrape() raises for an event: "none" for a page that
\* is parsed, "other" for an exception that is none of the scraper's own.
\* HttpScraper: 404 / 410 raise PermanentError, another status >= 400
\* RetryableError; httpx.TimeoutException and httpx.ConnectError are turned
\* into RetryableError.
\* PlaywrightScraper: every status >= 400 raises RetryableError;
\* PlaywrightTimeoutError is turned into RetryableError; a failed connection
\* is a playwright Error, which no clause names.
Classify(b, e) ==
    IF b = "http"
    THEN CASE e.kind = "status" /\ e.code >= 400 /\ e.code \in {404, 410}
                  -> "PermanentError"
           [] e.kind = "status" /\ e.code >= 400 /\ e.code \notin {404, 410}
                  -> "RetryableError"
           [] e.kind = "status" /\ e.code < 400 -> "none"
           [] e.kind = "timeout" -> "RetryableError"
           [] e.kind = "connect_error" -> "RetryableError"
    ELSE CASE e.kind = "status" /\ e.code >= 400 -> "RetryableError"
           [] e.kind = "status" /\ e.code < 400 -> "none"
           [] e.kind = "timeout" -> "RetryableError"
           [] e.kind = "connect_error" -> "other"

\* How scrape() ends: the errors raised inside its try block for a status are
\* caught by its own `except Exception` and come back as a record with
\* error_message, as does any other exception; only the errors made from a
\* timeout (and, in HttpScraper, from a connection error) leave scrape().
BackendReturn(b, e) ==
    CASE e.kind = "status" /\ e.code < 400 -> "data"
      [] e.kind = "status" /\ e.code >= 400 -> "error_data"
      [] e.kind = "timeout" -> "raises"
      [] e.kind = "connect_error" -> IF b = "http" THEN "raises" ELSE "error_data"

\* The product of the call exists, or does not
InitScraper ==
    scraper \in {NewScraper(b) : b \in Backends}
                    \cup {[NewScraper("http") EXCEPT !.product = "missing"]}

\* The product is not found: the call returns None
ProductMissing ==
    /\ scraper.pc = "created"
    /\ scraper.product = "missing"
    /\ scraper' = [scraper EXCEPT !.pc = "exited", !.exit = "normal",
                                  !.result = "None"]
    /\ UNCHANGED <<jobVars, rlVars, alertVars, registryVars, extraVars>>

\* _get_site_config or ScraperFactory.create_scraper raises: the handler of
\* scrape_single_product runs, no backend was entered
CreateFails ==
    /\ scraper.pc = "created"
    /\ scraper.product = "found"
    /\ scraper' = [scraper EXCEPT !.pc = "handler", !.exit = "error"]
    /\ UNCHANGED <<jobVars, rlVars, alertVars, registryVars, extraVars>>

\* `async with scraper:` calls __aenter__, which calls initialize()
EnterScraper ==
    /\ scraper.pc = "created"
    /\ scraper.product = "found"
    /\ scraper' = [scraper EXCEPT !.pc = "initializing", !.init_started = TRUE]
    /\ UNCHANGED <<jobVars, rlVars, alertVars, registryVars, extraVars>>

\* The next step of initialize() succeeds; after the last one __aenter__
\* returns and scrape_single_product waits for the rate limiter.
InitStep ==
    /\ scraper.pc = "initializing"
    /\ LET steps == InitSteps(scraper.backend)
           k == scraper.step + 1
       IN scraper' = [scraper EXCEPT
                         !.step = k,
                         !.held = IF steps[k] = "route" THEN @ ELSE @ \cup {steps[k]},
                         !.pc = IF k = Len(steps) THEN "rate_limit" ELSE @]
    /\ UNCHANGED <<jobVars, rlVars, alertVars, registryVars, extraVars>>

\* The next step of initialize() raises.  initialize() re-raises it as
\* ScrapingError; __aenter__ has not returned, so the `async with` statement
\* does not call __aexit__.  scrape_single_product catches the error in its
\* handler.
InitFail ==
    /\ scraper.pc = "initializing"
    /\ scraper' = [scraper EXCEPT !.pc = "handler", !.exit = "error"]
    /\ UNCHANGED <<jobVars, rlVars, alertVars, registryVars, extraVars>>

\* The task is cancelled while initialize() waits in one of its steps:
\* CancelledError passes `except Exception` and, as above, no __aexit__ runs.
InitCancel ==
    /\ scraper.pc = "initializing"
    /\ InitSuspends(scraper.backend)
    /\ scraper' = [scraper EXCEPT !.pc = "exited", !.exit = "cancelled",
                                  !.result = "raises"]
    /\ UNCHANGED <<jobVars, rlVars, alertVars, registryVars, extraVars>>

\* rate_limiter.acquire() returns
RateLimitPassed ==
    /\ scraper.pc = "rate_limit"
    /\ scraper' = [scraper EXCEPT !.pc = "fetching"]
    /\ UNCHANGED <<jobVars, rlVars, alertVars, registryVars, extraVars>>

\* scraper.scrape(request) ends on the event e
Scrape(e) ==
    /\ scraper.pc = "fetching"
    /\ scraper' = [scraper EXCEPT
                      !.event = e,
                      !.raised = Classify(scraper.backend, e),
                      !.returned = BackendReturn(scraper.backend, e),
                      !.pc = IF BackendReturn(scraper.backend, e) = "raises"
                             THEN "cleanup" ELSE "saving",
                      !.exit = IF BackendReturn(scraper.backend, e) = "raises"
                               THEN "error" ELSE @]
    /\ UNCHANGED <<jobVars, rlVars, alertVars, registryVars, extraVars>>

\* rate_limiter.acquire() raises inside the `async with` statement
RateLimitFails ==
    /\ scraper.pc = "rate_limit"
    /\ scraper' = [scraper EXCEPT !.pc = "cleanup", !.exit = "error"]
    /\ UNCHANGED <<jobVars, rlVars, alertVars, registryVars, extraVars>>

\* _save_snapshot commits the record that scrape() returned (ok), a clean
\* snapshot or one bearing error_message, and the rest of the body runs to
\* `return snapshot`; or the commit fails, _save_snapshot rolls back and
\* raises.
SaveSnapshot(ok) ==
    /\ scraper.pc = "saving"
    /\ scraper' = [scraper EXCEPT
                      !.pc = "cleanup",
                      !.exit = IF ok THEN "normal" ELSE "error",
                      !.result = IF ok THEN "snapshot" ELSE @,
                      !.persisted =
                          IF ~ok THEN @
                          ELSE Append(@, IF scraper.returned = "data"
                                         THEN "clean" ELSE "error_bearing")]
    /\ UNCHANGED <<jobVars, rlVars, alertVars, registryVars, extraVars>>

\* The task is cancelled inside the body of the `async with` statement, while
\* it waits for the rate limiter or for the fetch
BodyCancel ==
    /\ scraper.pc \in {"rate_limit", "fetching"}
    /\ scraper' = [scraper EXCEPT !.pc = "cleanup", !.exit = "cancelled",
                                  !.result = "raises"]
    /\ UNCHANGED <<jobVars, rlVars, alertVars, registryVars, extraVars>>

\* __aexit__ runs cleanup().  cleanup() closes what is held; an exception
\* while closing is logged and ends cleanup() with the rest still held.
\* An exception that was leaving the body goes on to the handler of
\* scrape_single_product.
Cleanup(ok) ==
    /\ scraper.pc = "cleanup"
    /\ scraper' = [scraper EXCEPT
                      !.pc = IF scraper.exit = "error" THEN "handler" ELSE "exited",
                      !.cleanup_ran = TRUE,
                      !.held = IF ok THEN {} ELSE @]
    /\ UNCHANGED <<jobVars, rlVars, alertVars, registryVars, extraVars>>

\* Variant of HandlerSave that saves no error snapshot
HandlerSave_NoSnapshot(ok) ==
    /\ scraper.pc = "handler"
    /\ scraper' = [scraper EXCEPT !.pc = "exited",
                                  !.result = IF ok THEN "None" ELSE "raises"]
    /\ UNCHANGED <<jobVars, rlVars, alertVars, registryVars, extraVars>>

\* The `except Exception` handler of scrape_single_product: an error snapshot
\* is saved and None returned (ok); or this save fails too, and the
\* exception of _save_snapshot leaves the call.
HandlerSave(ok) ==
    /\ scraper.pc = "handler"
    /\ scraper' = [scraper EXCEPT
                      !.pc = "exited",
                      !.result = IF ok THEN "None" ELSE "raises",
                      !.persisted = IF ok THEN Append(@, "error") ELSE @]
    /\ UNCHANGED <<jobVars, rlVars, alertVars, registryVars, extraVars>>

NextScraper ==
    \/ ProductMissing
    \/ CreateFails
    \/ RateLimitFails
    \/ \E ok \in BOOLEAN : HandlerSave(ok)
    \/ EnterScraper
    \/ InitStep
    \/ InitFail
    \/ InitCancel
    \/ RateLimitPassed
    \/ \E e \in FetchEvents : Scrape(e)
    \/ \E ok \in BOOLEAN : SaveSnapshot(ok)
    \/ BodyCancel
    \/ \E ok \in BOOLEAN : Cleanup(ok)

InitSpecScraper ==
    InitScraper /\ JobIdle /\ RLIdle /\ AlertIdle /\ RegistryIdle /\ ExtraIdle

SpecScraper == InitSpecScraper /\ [][NextScraper]_vars

\* C12: in both backends, a response with status 404 or 410 is classified as
\* a permanent failure (PermanentError), and any other status >= 400, a
\* timeout or a connection failure as a retryable failure (RetryableError).
C12_FailureClassification ==
    LET e == scraper.event
    IN /\ (e.kind = "status" /\ e.code \in {404, 410})
              => scraper.raised = "PermanentError"
       /\ \/ e.kind = "status" /\ e.code >= 400 /\ e.code \notin {404, 410}
          \/ e.kind \in {"timeout", "connect_error"}
          => scraper.raised = "RetryableError"

\* C18: for every backend instance whose initialize() has been started,
\* cleanup() has been run by the time the scrape has left the instance, on
\* every exit path: normal completion, an exception part-way through
\* initialize(), during rate limiting, fetch or snapshot saving, and
\* cancellation.
C18_CleanupOnEveryExit ==
    (scraper.pc = "exited" /\ scraper.init_started) => scraper.cleanup_ran

(***************************************************************************)
(* Part 6: which products are due                                          *)
(***************************************************************************)

CheckIntervalTicks == 2  \* Product.check_interval, in clock ticks
MaxScheduleTime == 4     \* the clock stops here

\* get_products_for_scraping.  The filter is written
\*     Product.track_stock == True or Product.track_price == True
\* with Python's `or`, which evaluates the truth value of the first
\* comparison (false for a column compared with a constant) and so yields
\* the second: the query keeps the products with track_price.  The products
\* of the model are all active.
GetProductsForScraping(prods, now) ==
    {p \in DOMAIN prods :
        /\ prods[p].settings.track_price
        /\ \/ prods[p].last_checked = NULL
           \/ now - prods[p].last_checked >= CheckIntervalTicks}

\* One scheduling cycle picks a product that is due and scrapes it
CycleScrape(p, data) ==
    /\ p \in GetProductsForScraping(products, utcnow)
    /\ ScrapeAtWallClock(p, data, utcnow)

ClockTick ==
    /\ utcnow < MaxScheduleTime
    /\ utcnow' = utcnow + 1
    /\ UNCHANGED <<products, snapshots, alerts, jobVars, rlVars, scraperVars, registryVars, extraVars>>

NextSchedule ==
    \/ \E p \in TrackedProducts : \E data \in ScrapedDataOf(p) : CycleScrape(p, data)
    \/ ClockTick

\* The products start with any of the tracking settings
InitSpecSchedule == InitAlert /\ JobIdle /\ RLIdle /\ ScraperIdle /\ RegistryIdle /\ ExtraIdle

SpecSchedule == InitSpecSchedule /\ [][NextSchedule]_vars

\* The snapshots of product p
SnapshotsOf(p) == {i \in DOMAIN snapshots : snapshots[i].product_id = p}

\* C13: after a scrape of a product has ended in a permanent fetch failure,
\* an error snapshot is stored and the product is returned by
\* get_products_for_scraping again only once its check interval has elapsed
\* since that attempt.
C13_DueAfterIntervalOnly ==
    \A p \in TrackedProducts :
        SnapshotsOf(p) # {} =>
            LET last == snapshots[Max(SnapshotsOf(p))]
            IN (last.has_error /\ utcnow - last.created_at < CheckIntervalTicks)
                  => p \notin GetProductsForScraping(products, utcnow)

(***************************************************************************)
(* More properties of part 1                                               *)
(***************************************************************************)

\* C16: execute_job writes successful_scrapes, failed_scrapes, progress = 100
\* and status = "completed" only after every per-target task of the job has
\* finished; while a per-target task is still running the job is "running"
\* with its counts and progress untouched.
C16_CountsAfterAllTasks ==
    /\ job.status = "completed" => \A i \in DOMAIN tasks : Finished(tasks[i])
    /\ (\E i \in DOMAIN tasks : ~Finished(tasks[i]))
          => /\ job.status = "running"
             /\ job.successful_scrapes = 0
             /\ job.failed_scrapes = 0
             /\ job.progress = 0

\* C16 witness: a job with more targets than the semaphore admits has
\* completed, one of its targets having returned no snapshot.
C16_Witness ==
    /\ driver = "returned"
    /\ job.status = "completed"
    /\ Len(tasks) > SemaphoreLimit
    /\ \E i \in DOMAIN tasks : tasks[i].result = "none" /\ tasks[i].fetch = "timeout"
    /\ job.failed_scrapes > 0

(***************************************************************************)
(* Part 7: a job whose targets may raise, and execute_job called again     *)
(***************************************************************************)

MaxOpsTargets == 2  \* longest product_ids list of the jobs of this part

\* Lists no longer than the semaphore's limit: no limited_scrape ever waits
OpsProductLists ==
    {[i \in 1..n |-> i] : n \in 0..MaxOpsTargets} \cup {<<1, MissingProduct>>}

InitJobOps ==
    /\ job \in {NewJob(ids, TRUE) : ids \in OpsProductLists}
    /\ driver = "not_started"
    /\ tasks = <<>>
    /\ wrappers = <<>>
    /\ manual = [pc |-> "done", pid |-> 0]

\* scrape_single_product raises: its `except Exception` handler saves an
\* error snapshot, and when that save fails too (_save_snapshot rolls back
\* and re-raises) the exception leaves the coroutine and becomes the result
\* of the task.  asyncio.gather(..., return_exceptions=True) hands it to
\* scrape_multiple_products as a value.
TaskRaises(i) ==
    /\ i \in DOMAIN tasks
    /\ tasks[i].pc = "in_flight"
    /\ ~WrapperReady
    /\ tasks' = [tasks EXCEPT ![i] = [pc |-> "done", fetch |-> "none",
                                      result |-> "exception"]]
    /\ UNCHANGED <<job, driver, wrappers, manual, rlVars, alertVars, scraperVars, registryVars, extraVars>>

\* execute_job(job_id) is called once more for a job whose earlier call has
\* returned.  execute_job does not look at the job's status.
ExecuteJobAgain ==
    /\ job.found
    /\ driver = "returned"
    /\ driver' = "not_started"
    /\ tasks' = <<>>
    /\ wrappers' = <<>>
    /\ UNCHANGED <<job, manual, rlVars, alertVars, scraperVars, registryVars, extraVars>>

NextJobOps ==
    \/ ExecuteJobBegin
    \/ \E i \in 1..MaxOpsTargets, o \in FetchOutcomes : FinishTask(i, o)
    \/ \E i \in 1..MaxOpsTargets : TaskRaises(i)
    \/ \E i \in 1..MaxOpsTargets : LimitedScrapeRelease(i)
    \/ ExecuteJobFinish
    \/ CancelJob
    \/ ExecuteJobAgain

InitSpecJobOps ==
    InitJobOps /\ RLIdle /\ AlertIdle /\ ScraperIdle /\ RegistryIdle /\ ExtraIdle

SpecJobOps == InitSpecJobOps /\ [][NextJobOps]_vars

\* A target has failed: its scrape gave anything but a snapshot of the page
TargetFailed(t) == t.result # "snapshot"

\* C14: the failure of a target (permanent or retryable fetch error, an
\* exception while scraping or saving its snapshot) does not leave
\* scrape_multiple_products or execute_job as an exception: when execute_job
\* has returned with its results written, every target has been processed
\* and every target that failed is counted as failed, the others as
\* successful.
C14_TargetFailuresContained ==
    (driver = "returned" /\ tasks # <<>> /\ job.status = "completed")
    => /\ \A i \in DOMAIN tasks : Finished(tasks[i])
       /\ job.failed_scrapes
             = Cardinality({i \in DOMAIN tasks : TargetFailed(tasks[i])})
       /\ job.successful_scrapes
             = Cardinality({i \in DOMAIN tasks : ~TargetFailed(tasks[i])})

\* The status may change along these edges only
StatusEdges == {<<"pending", "running">>, <<"running", "completed">>,
                <<"running", "failed">>}

StatusMovesAlongEdges ==
    job'.status # job.status => <<job.status, job'.status>> \in StatusEdges

TerminalJobFrozen ==
    job.status \in {"completed", "failed"} => job' = job

\* C15: a job's status only moves pending -> running, running -> completed
\* or running -> failed; once the job is completed or failed its status,
\* counts and progress never change again, whatever is invoked afterwards
\* (execute_job for the same job included); progress stays within 0..100.
C15_JobStateMachine ==
    /\ [](job.progress \in 0..100)
    /\ [][StatusMovesAlongEdges /\ TerminalJobFrozen]_vars

(***************************************************************************)
(* Part 8: a job whose scrapes pass the shared rate limiter                *)
(*                                                                         *)
(* Task i of the job is caller i of RateLimiter.acquire:                   *)
(* scrape_single_product calls acquire() before scraper.scrape, so its     *)
(* fetch ends only after acquire() has returned.                           *)
(***************************************************************************)

\* Lists no longer than the number of callers of the limiter
LimitedProductLists ==
    {[i \in 1..n |-> i] : n \in 0..NCallers} \cup {<<1, MissingProduct>>}

\* The limiter is one object for the whole process: when the job starts its
\* window is empty, or it is full of the calls of scrapes that have just
\* returned.
FullWindow == [i \in 1..RequestsPerMinute |-> 0]

InitLimitedJob ==
    /\ job \in {NewJob(ids, TRUE) : ids \in LimitedProductLists}
    /\ driver = "not_started"
    /\ tasks = <<>>
    /\ wrappers = <<>>
    /\ manual = [pc |-> "done", pid |-> 0]
    /\ clock = 0
    /\ requests \in {<<>>, FullWindow}
    /\ released = requests
    /\ locked = FALSE
    /\ waiters = <<>>
    /\ callers = [c \in Callers |-> IdleCaller]

\* scrape_single_product of task c: await rate_limiter.acquire()
ScrapeAcquires(c) ==
    /\ driver = "gather"
    /\ c \in DOMAIN tasks
    /\ tasks[c].pc = "in_flight"
    /\ callers[c].calls = 0
    /\ AcquireCall(c)

\* scrape_single_product of task i after acquire() has returned: the fetch ends
\* (a page, an error status, or the backend's request timeout) and
\* scrape_single_product runs to its return.
ScrapeFetches(i, outcome) ==
    /\ i \in Callers
    /\ callers[i].calls > 0
    /\ callers[i].pc = "idle"
    /\ FinishTask(i, outcome)

\* Time passes while a caller sleeps in acquire()
SleepTick ==
    /\ \E c \in Callers : callers[c].pc = "sleeping" /\ clock < callers[c].wake
    /\ Tick

NextLimitedJob ==
    \/ ExecuteJobBegin
    \/ \E c \in Callers : ScrapeAcquires(c)
    \/ \E c \in Callers : LockGranted(c)
    \/ \E c \in Callers : AcquireWake(c)
    \/ SleepTick
    \/ \E i \in Callers, o \in FetchOutcomes : ScrapeFetches(i, o)
    \/ \E i \in Callers : LimitedScrapeRelease(i)
    \/ ExecuteJobFinish

InitSpecLimitedJob ==
    InitLimitedJob /\ AlertIdle /\ ScraperIdle /\ RegistryIdle /\ ExtraIdle

\* The event loop runs what is ready, time passes, and every fetch returns
\* or times out: a step that can be taken is taken in the end.
SpecLimitedJob ==
    InitSpecLimitedJob /\ [][NextLimitedJob]_vars /\ WF_vars(NextLimitedJob)

MaxRegisters == 3   \* register() calls made in one run

Www == <<"w", "w", "w", ".">>               \* 'www.'
ExampleDomain == <<"e", ".", "c">>          \* 'e.c'
ShortDomain == <<"c">>                      \* 'c', a part of 'e.c'
OtherDomain == <<"o", ".", "n">>            \* 'o.n'

\* The domains register() is called with
RegisteredNames ==
    {ExampleDomain, ShortDomain, OtherDomain, Www \o ExampleDomain}

\* The domains asked for: the registered names, a subdomain 's.e.c', a name
\* 'e.c.t' that holds 'e.c' in the middle, and a name that holds none of them
LookupNames ==
    RegisteredNames
        \cup {<<"s", ".">> \o ExampleDomain, ExampleDomain \o <<".", "t">>,
              <<"x", ".", "n">>}

\* parser.get_config() of the registered parsers: their selectors and
\* whether they ask for the rendering backend
Parsers ==
    {[name |-> "p1", use_javascript |-> TRUE, selectors |-> "p1_selectors"],
     [name |-> "p2", use_javascript |-> FALSE, selectors |-> "p2_selectors"]}

\* get_parser returns None
NoParser == [name |-> "None", use_javascript |-> FALSE, selectors |-> "{}"]

\* Site rows: base_url's netloc, use_javascript (default False) and the
\* selectors column (nullable JSON)
Sites ==
    [netloc : LookupNames, use_javascript : BOOLEAN,
     selectors : {"NULL", "site_selectors"}]

\* str.endswith
EndsWith(s, t) ==
    Len(t) <= Len(s) /\ SubSeq(s, Len(s) - Len(t) + 1, Len(s)) = t

\* t in s
Contains(s, t) ==
    \E i \in 1..(Len(s) - Len(t) + 1) : SubSeq(s, i, i + Len(t) - 1) = t

\* s.replace('www.', ''): every occurrence is removed, left to right
RECURSIVE StripWww(_)
StripWww(s) ==
    IF Len(s) < Len(Www) THEN s
    ELSE IF SubSeq(s, 1, Len(Www)) = Www
         THEN StripWww(SubSeq(s, Len(Www) + 1, Len(s)))
         ELSE <<Head(s)>> \o StripWww(Tail(s))

\* cls._parsers[domain] = parser: a dict keeps the position of a key that is
\* assigned again
SetParser(reg, domain, parser) ==
    IF \E i \in DOMAIN reg : reg[i].domain = domain
    THEN [i \in DOMAIN reg |->
            IF reg[i].domain = domain THEN [reg[i] EXCEPT !.parser = parser]
            ELSE reg[i]]
    ELSE Append(reg, [domain |-> domain, parser |-> parser])

\* The partial match of get_parser
PartialMatch(domain, registered_domain) ==
    EndsWith(domain, registered_domain) \/ Contains(domain, registered_domain)

\* Variant of GetParser without the exact match first: the first registered
\* domain that matches in part
GetParser_PartialOnly(reg, domain) ==
    LET hits == {i \in DOMAIN reg : PartialMatch(domain, reg[i].domain)}
    IN IF hits # {} THEN reg[Min(hits)].parser ELSE NoParser

\* SiteParserRegistry.get_parser
GetParser(reg, domain) ==
    LET exact == {i \in DOMAIN reg : reg[i].domain = domain}
        hits == {i \in DOMAIN reg : PartialMatch(domain, reg[i].domain)}
    IN IF exact # {} THEN reg[Min(exact)].parser
       ELSE IF hits # {} THEN reg[Min(hits)].parser
       ELSE NoParser

\* site.selectors or {}
OrEmpty(selectors) == IF selectors = "NULL" THEN "{}" ELSE selectors

\* ScrapingService._get_site_config: the site's own row, overridden by the
\* configuration of the parser when get_parser finds one
GetSiteConfig(reg, site) ==
    LET domain == StripWww(site.netloc)
        parser == GetParser(reg, domain)
    IN IF parser # NoParser
       THEN [use_javascript |-> parser.use_javascript,
             selectors |-> parser.selectors]
       ELSE [use_javascript |-> site.use_javascript,
             selectors |-> OrEmpty(site.selectors)]

NoConfig == [use_javascript |-> FALSE, selectors |-> "none"]

InitRegistry ==
    /\ registry = <<>>
    /\ registerLog = <<>>
    /\ resolved = NoLookup

\* SiteParserRegistry.register(domain, parser)
Register(domain, parser) ==
    /\ Len(registerLog) < MaxRegisters
    /\ registry' = SetParser(registry, domain, parser)
    /\ registerLog' = Append(registerLog, [domain |-> domain, parser |-> parser])
    /\ resolved' = NoLookup
    /\ UNCHANGED <<jobVars, rlVars, alertVars, scraperVars, extraVars>>

\* A call of SiteParserRegistry.get_parser(domain)
LookupParser(domain) ==
    /\ resolved' = [asked |-> TRUE, via |-> "get_parser", domain |-> domain,
                    parser |-> GetParser(registry, domain),
                    config |-> NoConfig, backend |-> "none"]
    /\ UNCHANGED <<registry, registerLog, jobVars, rlVars, alertVars, scraperVars, extraVars>>

\* scrape_single_product for a product of the site: _get_site_config, then
\* ScraperFactory.create_scraper on the result
ResolveSite(site) ==
    /\ resolved' = [asked |-> TRUE, via |-> "_get_site_config",
                    domain |-> StripWww(site.netloc),
                    parser |-> GetParser(registry, StripWww(site.netloc)),
                    config |-> GetSiteConfig(registry, site),
                    backend |-> CreateScraper(GetSiteConfig(registry, site).use_javascript)]
    /\ UNCHANGED <<registry, registerLog, jobVars, rlVars, alertVars, scraperVars, extraVars>>

NextRegistry ==
    \/ \E d \in RegisteredNames, p \in Parsers : Register(d, p)
    \/ \E d \in LookupNames : LookupParser(d)
    \/ \E site \in Sites : ResolveSite(site)

InitSpecRegistry ==
    InitRegistry /\ JobIdle /\ RLIdle /\ AlertIdle /\ ScraperIdle /\ ExtraIdle

SpecRegistry == InitSpecRegistry /\ [][NextRegistry]_vars

\* Observation: the domains registered so far, and the parser of the last
\* register() call for a domain
RegisteredSoFar == {registerLog[i].domain : i \in DOMAIN registerLog}

LastRegistered(d) ==
    registerLog[Max({i \in DOMAIN registerLog : registerLog[i].domain = d})].parser

\* A registered domain matches the name asked for: exactly, as its suffix or
\* as a part of it
Matches(d, name) == d = name \/ EndsWith(name, d) \/ Contains(name, d)

\* C19: get_parser(d) returns the parser of the last register(d, .) call,
\* whatever other registered domains match d in part; get_parser of a name
\* that ends with d returns that parser too when no other registered domain
\* matches the name.
C19_RegisterThenResolve ==
    (resolved.asked /\ resolved.via = "get_parser")
    => /\ resolved.domain \in RegisteredSoFar
            => resolved.parser = LastRegistered(resolved.domain)
       /\ \A d \in RegisteredSoFar :
            (/\ EndsWith(resolved.domain, d)
             /\ \A e \in RegisteredSoFar \ {d} : ~Matches(e, resolved.domain))
            => resolved.parser = LastRegistered(d)

\* 'e.c' was registered twice with different parsers, 'c' before it; 'e.c'
\* is asked for
C19_Witness ==
    /\ resolved.asked
    /\ resolved.via = "get_parser"
    /\ resolved.domain = ExampleDomain
    /\ Len(registry) = 2
    /\ registry[1].domain = ShortDomain
    /\ \E i, j \in DOMAIN registerLog :
          /\ i < j
          /\ registerLog[i].domain = ExampleDomain
          /\ registerLog[j].domain = ExampleDomain
          /\ registerLog[i].parser # registerLog[j].parser

\* GenericEcommerceParser.get_config with nothing customised: the default
\* selectors and use_javascript = True
GenericDefault == [use_javascript |-> TRUE, selectors |-> "default_selectors"]

\* C20: a site whose domain no registered domain matches gets the generic
\* default configuration, and with it the rendering backend.
C20_UnknownSiteGetsGenericDefault ==
    (/\ resolved.asked
     /\ resolved.via = "_get_site_config"
     /\ \A d \in RegisteredSoFar : ~Matches(d, resolved.domain))
    => /\ resolved.config = GenericDefault
       /\ resolved.backend = "playwright"

\* C21: when no registered domain is the name asked for and several match it
\* in part, the parser that get_parser returns is the same for every order
\* in which the same domains could have been registered.
C21_OrderIndependent ==
    (/\ resolved.asked
     /\ resolved.via = "get_parser"
     /\ \A i \in DOMAIN registry : registry[i].domain # resolved.domain)
    => \A f \in Permutations(DOMAIN registry) :
          GetParser([i \in DOMAIN registry |-> registry[f[i]]], resolved.domain)
              = resolved.parser

\* C22: get_products_for_scraping returns a product that tracks stock or
\* price exactly when it was never checked or its check interval has passed
\* since last_checked; a due product that tracks only stock is returned.
C22_DueProductsReturned ==
    \A p \in DOMAIN products :
        (products[p].settings.track_stock \/ products[p].settings.track_price)
        => (p \in GetProductsForScraping(products, utcnow)
              <=> \/ products[p].last_checked = NULL
                  \/ utcnow - products[p].last_checked >= CheckIntervalTicks)

\* The snapshot that the step has just saved
SavedNow == snapshots'[Len(snapshots')]

\* C29: a scrape whose snapshot carries error_message creates no alert and
\* leaves the cached values of every product as they were; alerts and the
\* cache change only in a step that has saved an error-free snapshot, the
\* new alerts name that snapshot and the cache takes its values.
C29_ErrorSnapshotChangesNothing ==
    [][/\ Len(snapshots') = Len(snapshots) + 1
       /\ SavedNow.has_error => (alerts' = alerts /\ products' = products)
       /\ ~SavedNow.has_error =>
            /\ \A i \in DOMAIN alerts' \ DOMAIN alerts :
                  alerts'[i].trigger_snapshot_id = SavedNow.id
            /\ products' = [products EXCEPT ![SavedNow.product_id] =
                              [@ EXCEPT !.current_price = SavedNow.price,
                                        !.is_in_stock = SavedNow.is_in_stock,
                                        !.last_checked = SavedNow.created_at]]
      ]_vars

\* The last scrape of product 1 failed; the cache still shows the price and
\* the time of the clean scrape before it
C29_Witness ==
    /\ Len(snapshots) >= 2
    /\ snapshots[Len(snapshots)].has_error
    /\ snapshots[Len(snapshots)].product_id = 1
    /\ products[1].current_price # NULL
    /\ products[1].last_checked # NULL
    /\ products[1].last_checked < snapshots[Len(snapshots)].created_at

(***************************************************************************)
(* Part 10: concurrent scrapes of one product                              *)
(*                                                                         *)
(* Several scrape_single_product calls for product 1 run in one event      *)
(* loop.  A call suspends in rate_limiter.acquire() and in scraper.scrape; *)
(* from the return of scraper.scrape to its own return nothing suspends.   *)
(***************************************************************************)

MaxCalls == 3   \* concurrent calls for the product

InitCalls ==
    \E n \in 1..MaxCalls : calls = [c \in 1..n |-> "rate_limit"]

\* rate_limiter.acquire() returns to call c
CallPassesLimiter(c) ==
    /\ c \in DOMAIN calls
    /\ calls[c] = "rate_limit"
    /\ calls' = [calls EXCEPT ![c] = "fetching"]
    /\ UNCHANGED <<jobVars, rlVars, alertVars, scraperVars, registryVars,
                   batch, extraction>>

\* scraper.scrape returns to call c with the record data, and the call runs
\* to its return as in ScrapeSingleProduct: the snapshot is saved, and for a
\* snapshot without error_message the alerts are checked and the cached
\* values updated.
CallFinishes(c, data) ==
    /\ c \in DOMAIN calls
    /\ calls[c] = "fetching"
    /\ calls' = [calls EXCEPT ![c] = "done"]
    /\ LET now == utcnow + 1
           snap == NewSnapshot(snapshots, 1, data, now)
       IN /\ utcnow' = now
          /\ snapshots' = Append(snapshots, snap)
          /\ IF snap.has_error
             THEN UNCHANGED <<alerts, products>>
             ELSE /\ alerts' = CheckAndCreateAlerts(alerts, products[1].settings,
                                                    snap, snapshots, now)
                  /\ products' = [products EXCEPT
                                    ![1] = UpdateProductCurrentValues(@, snap)]
    /\ UNCHANGED <<jobVars, rlVars, scraperVars, registryVars, batch, extraction>>

NextCalls ==
    \/ \E c \in 1..MaxCalls : CallPassesLimiter(c)
    \/ \E c \in 1..MaxCalls : \E data \in ScrapedDataOf(1) : CallFinishes(c, data)

InitSpecCalls ==
    /\ InitCalls /\ InitAlert /\ JobIdle /\ RLIdle /\ ScraperIdle /\ RegistryIdle
    /\ batch = IdleBatch /\ extraction = IdleExtraction

SpecCalls == InitSpecCalls /\ [][NextCalls]_vars

MaxBatch == 3   \* longest list of requests

\* The requests of one call: urls 1..n, all made to the same backend instance
InitBatch ==
    \E n \in 0..MaxBatch, b \in Backends :
        batch = NewBatch([i \in 1..n |-> [url |-> i, backend |-> b]])

\* str(e) of the exception that leaves scrape(): the message of the
\* RetryableError made from a timeout or a connection error
ExceptionMessage(b, e) ==
    IF e.kind = "timeout"
    THEN IF b = "http" THEN "Request timeout" ELSE "Page load timeout"
    ELSE "Connection error"

\* The record that one round of the loop appends for the event e: the record
\* that scrape() returns (a page, or an error record of scrape's own), or,
\* when scrape() raises, the error record made by the `except Exception`
\* clause of the loop.
BatchResult(request, e) ==
    CASE BackendReturn(request.backend, e) = "data"
            -> [url |-> request.url, error_message |-> "NULL"]
      [] BackendReturn(request.backend, e) = "error_data"
            -> [url |-> request.url, error_message |-> "scrape error record"]
      [] BackendReturn(request.backend, e) = "raises"
            -> [url |-> request.url,
                error_message |-> ExceptionMessage(request.backend, e)]

\* Variant of BatchScrape in which an exception of scrape() leaves the loop
BatchScrape_Propagates(e) ==
    /\ ~batch.returned
    /\ Len(batch.results) < Len(batch.requests)
    /\ LET request == batch.requests[Len(batch.results) + 1]
       IN batch' =
            IF BackendReturn(request.backend, e) = "raises"
            THEN [batch EXCEPT !.events = Append(@, e), !.returned = TRUE]
            ELSE [batch EXCEPT !.events = Append(@, e),
                               !.results = Append(@, BatchResult(request, e))]
    /\ UNCHANGED <<jobVars, rlVars, alertVars, scraperVars, registryVars,
                   calls, extraction>>

\* One round of the loop: the delay, then scrape(request) ends on the event e
BatchScrape(e) ==
    /\ ~batch.returned
    /\ Len(batch.results) < Len(batch.requests)
    /\ LET request == batch.requests[Len(batch.results) + 1]
       IN batch' = [batch EXCEPT !.events = Append(@, e),
                                 !.results = Append(@, BatchResult(request, e))]
    /\ UNCHANGED <<jobVars, rlVars, alertVars, scraperVars, registryVars,
                   calls, extraction>>

\* The loop is over: return results
BatchReturn ==
    /\ ~batch.returned
    /\ Len(batch.results) = Len(batch.requests)
    /\ batch' = [batch EXCEPT !.returned = TRUE]
    /\ UNCHANGED <<jobVars, rlVars, alertVars, scraperVars, registryVars,
                   calls, extraction>>

NextBatch ==
    \/ \E e \in FetchEvents : BatchScrape(e)
    \/ BatchReturn

InitSpecBatch ==
    /\ InitBatch /\ JobIdle /\ RLIdle /\ AlertIdle /\ ScraperIdle /\ RegistryIdle
    /\ calls = <<>> /\ extraction = IdleExtraction

SpecBatch == InitSpecBatch /\ [][NextBatch]_vars

\* C27: scrape_multiple returns one result per request, in the order of the
\* requests; a request whose scrape raised has an error record with the
\* message of the exception, and every request was scraped.
C27_OneResultPerRequest ==
    /\ \A i \in DOMAIN batch.results :
          /\ batch.results[i].url = batch.requests[i].url
          /\ BackendReturn(batch.requests[i].backend, batch.events[i]) = "raises"
                => batch.results[i].error_message
                      = ExceptionMessage(batch.requests[i].backend,
                                         batch.events[i])
    /\ batch.returned
          => /\ Len(batch.results) = Len(batch.requests)
             /\ Len(batch.events) = Len(batch.requests)

\* A call over three requests has returned; the scrape of the first raised
\* on a timeout, the last gave a page
C27_Witness ==
    /\ batch.returned
    /\ Len(batch.requests) = 3
    /\ batch.events[1] = Timeout
    /\ batch.results[1].error_message = "Page load timeout"
    /\ batch.results[3].error_message = "NULL"

(***************************************************************************)
(* Part 12: custom fields and prices (scraper/custom_extractor.py,         *)
(* HttpScraper._parse_price, PlaywrightScraper._parse_price)               *)
(*                                                                         *)
(* A text is a sequence of one-character strings.  A Python value is a     *)
(* record [kind, text]: kind is the type of the value (None, str, int,     *)
(* float, Decimal, bool) and text the characters it was built from, so     *)
(* Decimal('12.5') is [kind |-> "Decimal", text |-> <<"1","2",".","5">>].  *)
(***************************************************************************)

MaxTextLen == 4
MaxSiblings == 1

\* The characters \d matches among those the inputs use
Digits == {"0", "1", "2", "3", "4", "5", "6"}

PyValue(kind, text) == [kind |-> kind, text |-> text]

None == PyValue("None", <<>>)

\* An exception on its way out of a function
Raises == PyValue("raises", <<>>)

\* re.sub(r'[^\d,.]', '', text)
Clean(text) == SelectSeq(text, LAMBDA ch : ch \in Digits \cup {",", "."})

\* s.replace(c, '') for a one-character c
Without(s, c) == SelectSeq(s, LAMBDA ch : ch # c)

\* s.replace(c, d) for one-character c and d
ReplaceChar(s, c, d) == [i \in DOMAIN s |-> IF s[i] = c THEN d ELSE s[i]]

\* s.rindex(c), for a c that occurs in s
RIndex(s, c) ==
    CHOOSE i \in DOMAIN s : s[i] = c /\ \A j \in DOMAIN s : s[j] = c => j <= i

\* s.count(c): s.split(c) has s.count(c) + 1 parts
Count(s, c) == Len(SelectSeq(s, LAMBDA ch : ch = c))

\* The separator rule of HttpScraper._parse_price, between the re.sub and
\* the Decimal(cleaned)
SeparatorRule_ThreeDigits(cleaned) ==
    IF Contains(cleaned, <<",">>) /\ Contains(cleaned, <<".">>)
    THEN IF RIndex(cleaned, ",") > RIndex(cleaned, ".")
         THEN ReplaceChar(Without(cleaned, "."), ",", ".")
         ELSE Without(cleaned, ",")
    ELSE IF Contains(cleaned, <<",">>)
         THEN IF /\ Count(cleaned, ",") + 1 = 2
                 /\ Len(cleaned) - RIndex(cleaned, ",") <= 3
              THEN ReplaceChar(cleaned, ",", ".")
              ELSE Without(cleaned, ",")
         ELSE cleaned

SeparatorRule(cleaned) ==
    IF Contains(cleaned, <<",">>) /\ Contains(cleaned, <<".">>)
    THEN IF RIndex(cleaned, ",") > RIndex(cleaned, ".")
         THEN ReplaceChar(Without(cleaned, "."), ",", ".")
         ELSE Without(cleaned, ",")
    ELSE IF Contains(cleaned, <<",">>)
         THEN IF /\ Count(cleaned, ",") + 1 = 2
                 /\ Len(cleaned) - RIndex(cleaned, ",") <= 2
              THEN ReplaceChar(cleaned, ",", ".")
              ELSE Without(cleaned, ",")
         ELSE cleaned

\* The texts Decimal() and float() accept among those of digits and points:
\* at least one digit and at most one point
IsDecimalText(s) ==
    /\ \A i \in DOMAIN s : s[i] \in Digits \cup {"."}
    /\ Count(s, ".") <= 1
    /\ \E i \in DOMAIN s : s[i] \in Digits

\* The texts int() accepts among those of digits and points
IsIntText(s) == s # <<>> /\ \A i \in DOMAIN s : s[i] \in Digits

\* HttpScraper._parse_price: InvalidOperation and ValueError give None
HttpParsePrice(price_text) ==
    LET cleaned == SeparatorRule(Clean(price_text))
    IN IF IsDecimalText(cleaned) THEN PyValue("Decimal", cleaned) ELSE None

\* The separator rule of PlaywrightScraper._parse_price
PlaywrightSeparatorRule(cleaned) ==
    IF Contains(cleaned, <<",">>) /\ Contains(cleaned, <<".">>)
    THEN IF RIndex(cleaned, ",") > RIndex(cleaned, ".")
         THEN ReplaceChar(Without(cleaned, "."), ",", ".")
         ELSE Without(cleaned, ",")
    ELSE IF Contains(cleaned, <<",">>)
         THEN IF /\ Count(cleaned, ",") + 1 = 2
                 /\ Len(cleaned) - RIndex(cleaned, ",") <= 2
              THEN ReplaceChar(cleaned, ",", ".")
              ELSE Without(cleaned, ",")
         ELSE cleaned

\* PlaywrightScraper._parse_price
PlaywrightParsePrice(price_text) ==
    LET cleaned == PlaywrightSeparatorRule(Clean(price_text))
    IN IF IsDecimalText(cleaned) THEN PyValue("Decimal", cleaned) ELSE None

\* The separator rule of the 'number' and the 'price' branch of
\* _convert_to_type, which hold the same lines
CoerceSeparatorRule(cleaned) ==
    IF Contains(cleaned, <<",">>) /\ Contains(cleaned, <<".">>)
    THEN IF RIndex(cleaned, ",") > RIndex(cleaned, ".")
         THEN ReplaceChar(Without(cleaned, "."), ",", ".")
         ELSE Without(cleaned, ",")
    ELSE IF Contains(cleaned, <<",">>)
         THEN IF /\ Count(cleaned, ",") + 1 = 2
                 /\ Len(cleaned) - RIndex(cleaned, ",") <= 2
              THEN ReplaceChar(cleaned, ",", ".")
              ELSE Without(cleaned, ",")
         ELSE cleaned

\* The letter the lexicon writes in 'hayir' without its dot (U+0131)
DotlessI == "dotless_i"

\* str.lower() on the letters the inputs use; 'I'.lower() is 'i'
LowerChar(ch) ==
    CASE ch = "A" -> "a" [] ch = "C" -> "c" [] ch = "E" -> "e"
      [] ch = "H" -> "h" [] ch = "I" -> "i" [] ch = "K" -> "k"
      [] ch = "N" -> "n" [] ch = "O" -> "o" [] ch = "R" -> "r"
      [] ch = "T" -> "t" [] ch = "V" -> "v" [] ch = "Y" -> "y"
      [] OTHER -> ch

Lower(s) == [i \in DOMAIN s |-> LowerChar(s[i])]

\* true_values and false_values of the 'boolean' branch
TrueValues ==
    { <<"t","r","u","e">>, <<"1">>, <<"y","e","s">>, <<"v","a","r">>,
      <<"e","v","e","t">>, <<"m","e","v","c","u","t">>,
      <<"a","c","t","i","v","e">> }

FalseValues ==
    { <<"f","a","l","s","e">>, <<"0">>, <<"n","o">>, <<"y","o","k">>,
      <<"h","a","y",DotlessI,"r">>, <<"i","n","a","c","t","i","v","e">> }

\* value.strip() on the whitespace the inputs use
Strip(s) ==
    LET inked == {i \in DOMAIN s : s[i] # " "}
    IN IF inked = {} THEN <<>>
       ELSE SubSeq(s, CHOOSE i \in inked : \A j \in inked : i <= j,
                      CHOOSE i \in inked : \A j \in inked : j <= i)

\* re.sub(r'\s+', ' ', s)
RECURSIVE NormalizeWhitespace(_)
NormalizeWhitespace(s) ==
    IF Len(s) < 2 THEN s
    ELSE IF s[1] = " " /\ s[2] = " " THEN NormalizeWhitespace(Tail(s))
    ELSE <<s[1]>> \o NormalizeWhitespace(Tail(s))

\* _preprocess_value under the rules of a mapping that sets none: trim and
\* normalize_whitespace are on by default, every other rule is off
PreprocessValue(value) ==
    IF value = <<>> THEN value ELSE NormalizeWhitespace(Strip(value))

\* The try block of _convert_to_type: the value the branch of field_type
\* returns, or the exception it raises
Coerce(value, field_type) ==
    CASE field_type = "text" -> PyValue("str", value)
      [] field_type = "number" ->
            LET cleaned == CoerceSeparatorRule(Clean(value))
            IN IF Contains(cleaned, <<".">>)
               THEN IF IsDecimalText(cleaned) THEN PyValue("float", cleaned)
                    ELSE Raises
               ELSE IF IsIntText(cleaned) THEN PyValue("int", cleaned)
                    ELSE Raises
      [] field_type = "price" ->
            LET cleaned == CoerceSeparatorRule(Clean(value))
            IN IF IsDecimalText(cleaned) THEN PyValue("Decimal", cleaned)
               ELSE Raises
      [] field_type = "boolean" ->
            LET value_lower == Lower(value)
            IN IF \E true_val \in TrueValues : Contains(value_lower, true_val)
               THEN PyValue("bool", <<"True">>)
               ELSE IF \E false_val \in FalseValues :
                          Contains(value_lower, false_val)
                    THEN PyValue("bool", <<"False">>)
                    ELSE None
      [] OTHER -> PyValue("str", value)

\* _convert_to_type: an empty value is None, and an exception of the try
\* block is caught and the value returned as a string
ConvertToType(value, field_type) ==
    IF value = <<>> THEN None
    ELSE IF Coerce(value, field_type) = Raises THEN PyValue("str", value)
    ELSE Coerce(value, field_type)

CustomFieldResult(field_name, field_type, raw_value, processed_value, extraction_successful, error_message) ==
    [field_name |-> field_name, field_type |-> field_type,
     raw_value |-> raw_value, processed_value |-> processed_value,
     extraction_successful |-> extraction_successful,
     error_message |-> error_message]

\* A mapping and what the page holds for it: raw is what _extract_raw_value
\* returns for its selector (None when no element matches), regex_pattern
\* is "NULL" for no pattern, or what re.search does with the pattern:
\* "whole_text" (a match without groups over the whole text), "no_match",
\* "bad_pattern" (re.error); enabled is
\* user_preferences.get('extract_' + field_name, True)
Mapping(field_type, raw, regex_pattern, enabled) ==
    [field_name |-> 0, field_type |-> field_type, raw |-> raw,
     regex_pattern |-> regex_pattern, enabled |-> enabled]

\* _extract_single_field raises: re.search on a pattern that does not compile
SingleFieldRaises(mapping) ==
    mapping.raw # None /\ mapping.regex_pattern = "bad_pattern"

\* _extract_single_field, when it returns
ExtractSingleField(mapping) ==
    IF mapping.raw = None
    THEN CustomFieldResult(mapping.field_name, mapping.field_type, None, None,
                           FALSE, "Element not found or empty")
    ELSE IF mapping.regex_pattern = "no_match"
    THEN CustomFieldResult(mapping.field_name, mapping.field_type,
                           mapping.raw, None, FALSE,
                           "Regex pattern did not match")
    ELSE CustomFieldResult(mapping.field_name, mapping.field_type,
                           mapping.raw,
                           ConvertToType(PreprocessValue(mapping.raw.text),
                                         mapping.field_type),
                           TRUE, "NULL")

\* The try statement of the loop body: the result of the field, or the
\* error result made from the exception
FieldResult(mapping) ==
    IF SingleFieldRaises(mapping)
    THEN CustomFieldResult(mapping.field_name, mapping.field_type, None, None,
                           FALSE, "re.error")
    ELSE ExtractSingleField(mapping)

\* Every text of at most n characters of the alphabet
BoundedTexts(alphabet, n) == UNION {[1..k -> alphabet] : k \in 0..n}

\* Price texts: every text of at most MaxTextLen characters out of a digit,
\* a comma and a point, and the four texts the documentation names, one of
\* them also as an attribute value with blanks and a currency
PriceTexts ==
    BoundedTexts({"1", ",", "."}, MaxTextLen)
      \cup { <<"1",".","2","3","4",",","5","6">>,
             <<"1",",","2","3","4",".","5","6">>,
             <<"1",",","2","3","4">>,
             <<"1","2",",","5">>,
             <<" ","1","2",",","5"," "," ","T","L">> }

NumberTexts ==
    { <<"1","2",",","5">>, <<"1",",","2","3","4">>, <<"T","L">>,
      <<"1",".","2",".","3">> }

\* Every word of the two lexicons, some of them in capitals or inside a
\* phrase, and texts with no word of either
BooleanTexts ==
    TrueValues \cup FalseValues
      \cup { <<"E","V","E","T">>, <<"Y","O","K">>, <<"H","A","Y","I","R">>,
             <<"A","C","T","I","V","E">>,
             <<"s","t","o","k","t","a"," ","y","o","k">>,
             <<"b","e","l","k","i">>, <<"?">> }

\* The mappings a call is drawn from
FieldMappings ==
    {Mapping("price", PyValue("str", t), "NULL", TRUE) : t \in PriceTexts}
      \cup {Mapping("number", PyValue("str", t), "NULL", TRUE) :
               t \in NumberTexts}
      \cup {Mapping("boolean", PyValue("str", t), "NULL", TRUE) :
               t \in BooleanTexts}
      \cup {Mapping("text", PyValue("str", <<"T","L">>), r, TRUE) :
               r \in {"NULL", "whole_text", "no_match"}}

\* The mappings that stand before and after it in the list
Siblings ==
    { Mapping("text", None, "NULL", TRUE),
      Mapping("price", PyValue("str", <<"1","2",",","5">>), "bad_pattern",
              TRUE),
      Mapping("number", PyValue("str", <<"1","2",",","5">>), "NULL", FALSE) }

SiblingLists == UNION {[1..k -> Siblings] : k \in 0..MaxSiblings}

\* field_name of a mapping is its place in the list: names are distinct
Named(mappings) ==
    [i \in DOMAIN mappings |-> [mappings[i] EXCEPT !.field_name = i]]

InitExtraction ==
    \E before \in SiblingLists, mapping \in FieldMappings,
       after \in SiblingLists :
          extraction = NewExtraction(Named(before \o <<mapping>> \o after))

\* One round of the for loop, where an exception of _extract_single_field
\* leaves the function
ExtractField_Propagates ==
    /\ ~extraction.returned
    /\ extraction.next <= Len(extraction.mappings)
    /\ LET mapping == extraction.mappings[extraction.next]
       IN extraction' =
            IF ~mapping.enabled
            THEN [extraction EXCEPT !.next = @ + 1]
            ELSE IF SingleFieldRaises(mapping)
            THEN [extraction EXCEPT !.returned = TRUE]
            ELSE [extraction EXCEPT !.next = @ + 1,
                                    !.results = Append(@, FieldResult(mapping))]
    /\ UNCHANGED <<jobVars, rlVars, alertVars, scraperVars, registryVars,
                   calls, batch>>

\* One round of the for loop: a mapping the user switched off is passed
\* over, every other one appends its result
ExtractField ==
    /\ ~extraction.returned
    /\ extraction.next <= Len(extraction.mappings)
    /\ LET mapping == extraction.mappings[extraction.next]
       IN extraction' =
            IF ~mapping.enabled
            THEN [extraction EXCEPT !.next = @ + 1]
            ELSE [extraction EXCEPT !.next = @ + 1,
                                    !.results = Append(@, FieldResult(mapping))]
    /\ UNCHANGED <<jobVars, rlVars, alertVars, scraperVars, registryVars,
                   calls, batch>>

\* The loop is over: return results
ExtractionReturn ==
    /\ ~extraction.returned
    /\ extraction.next > Len(extraction.mappings)
    /\ extraction' = [extraction EXCEPT !.returned = TRUE]
    /\ UNCHANGED <<jobVars, rlVars, alertVars, scraperVars, registryVars,
                   calls, batch>>

NextExtraction ==
    \/ ExtractField
    \/ ExtractionReturn

InitSpecExtraction ==
    /\ InitExtraction /\ JobIdle /\ RLIdle /\ AlertIdle /\ ScraperIdle
    /\ RegistryIdle /\ calls = <<>> /\ batch = IdleBatch

SpecExtraction == InitSpecExtraction /\ [][NextExtraction]_vars

\* The mappings the loop has been through that the user did not switch off
Extracted ==
    SelectSeq(SubSeq(extraction.mappings, 1, extraction.next - 1),
              LAMBDA m : m.enabled)

\* C23: extract_custom_fields returns exactly one result per enabled
\* mapping, in the order of the mappings; the result of a mapping is the
\* one it has on its own, whatever the mappings around it did (element
\* missing, regex not matching, exception).
C23_OneResultPerEnabledMapping ==
    /\ Len(extraction.results) = Len(Extracted)
    /\ \A k \in DOMAIN extraction.results :
          /\ extraction.results[k].field_name = Extracted[k].field_name
          /\ extraction.results[k] = FieldResult(Extracted[k])
    /\ extraction.returned
          => extraction.next = Len(extraction.mappings) + 1

\* A call has returned three results: the first mapping raised, the second
\* gave the price 12.5, the third found no element
C23_Witness ==
    /\ extraction.returned
    /\ Len(extraction.results) = 3
    /\ extraction.results[1].error_message = "re.error"
    /\ extraction.results[2].processed_value
          = PyValue("Decimal", <<"1","2",".","5">>)
    /\ extraction.results[3].error_message = "Element not found or empty"

\* The type conversion of the mapping was reached and its try block raised
CoercionRaised(mapping) ==
    /\ mapping.raw # None
    /\ mapping.regex_pattern \in {"NULL", "whole_text"}
    /\ PreprocessValue(mapping.raw.text) # <<>>
    /\ Coerce(PreprocessValue(mapping.raw.text), mapping.field_type) = Raises

\* C24: when the type conversion of a field raises (a 'number' or 'price'
\* value that is no number), the result of the field is a failed extraction
\* with a reason and with the raw value kept.
C24_CoercionFailureIsFailedExtraction ==
    \A k \in DOMAIN extraction.results :
       CoercionRaised(Extracted[k])
          => /\ ~extraction.results[k].extraction_successful
             /\ extraction.results[k].error_message # "NULL"
             /\ extraction.results[k].raw_value = Extracted[k].raw

\* The type conversion of the mapping was reached, on a value that is not
\* empty
Converted(mapping) ==
    /\ mapping.raw # None
    /\ mapping.regex_pattern \in {"NULL", "whole_text"}
    /\ PreprocessValue(mapping.raw.text) # <<>>

\* C25: a boolean field whose value is, in any case of letters, a word of
\* the negative lexicon is false, one whose value is a word of the positive
\* lexicon is true, and one whose value holds no word of either is null.
C25_BooleanLexicon ==
    \A k \in DOMAIN extraction.results :
       LET mapping == Extracted[k]
           value_lower == Lower(PreprocessValue(mapping.raw.text))
           processed_value == extraction.results[k].processed_value
       IN (Converted(mapping) /\ mapping.field_type = "boolean")
             => /\ value_lower \in FalseValues
                   => processed_value = PyValue("bool", <<"False">>)
                /\ value_lower \in TrueValues
                   => processed_value = PyValue("bool", <<"True">>)
                /\ (\A word \in TrueValues \cup FalseValues :
                       ~Contains(value_lower, word))
                   => processed_value = None

\* The number of characters after the point of a decimal text
FractionLen(s) == IF Contains(s, <<".">>) THEN Len(s) - RIndex(s, ".") ELSE 0

\* The price the documentation gives for a text
Documented(text, price) ==
    HttpParsePrice(text) = PyValue("Decimal", price)

\* C26: on every price text the static backend, the rendering backend and
\* the 'price' conversion of custom fields give the same decimal, or none of
\* them gives one.  The decimal has the digits of the text; when both
\* separators occur its fraction is what follows the later one; when only
\* commas occur, its fraction is what follows a single comma with at most
\* two characters after it, and it has no fraction otherwise.
\* '1.234,56' and '1,234.56' give 1234.56, '1,234' gives 1234 and '12,5'
\* gives 12.5.
C26_PriceParsersAgree ==
    /\ \A k \in DOMAIN extraction.results :
          LET mapping == Extracted[k]
              text == mapping.raw.text
              cleaned == Clean(text)
              http == HttpParsePrice(text)
              rendered == PlaywrightParsePrice(text)
              custom == extraction.results[k].processed_value
              commas == Contains(cleaned, <<",">>)
              points == Contains(cleaned, <<".">>)
          IN (Converted(mapping) /\ mapping.field_type = "price")
                => /\ http = rendered
                   /\ IF http = None THEN custom.kind # "Decimal"
                                     ELSE custom = http
                   /\ http # None
                         => /\ Without(http.text, ".")
                                  = SelectSeq(text, LAMBDA ch : ch \in Digits)
                            /\ commas /\ points
                                  => FractionLen(http.text)
                                        = IF RIndex(cleaned, ",")
                                               > RIndex(cleaned, ".")
                                          THEN Len(cleaned)
                                                 - RIndex(cleaned, ",")
                                          ELSE Len(cleaned)
                                                 - RIndex(cleaned, ".")
                            /\ commas /\ ~points
                                  => FractionLen(http.text)
                                        = IF /\ Count(cleaned, ",") = 1
                                             /\ Len(cleaned)
                                                  - RIndex(cleaned, ",") <= 2
                                          THEN Len(cleaned)
                                                 - RIndex(cleaned, ",")
                                          ELSE 0
                            /\ commas /\ ~points
                                  => Contains(http.text, <<".">>)
                                        = /\ Count(cleaned, ",") = 1
                                          /\ Len(cleaned)
                                               - RIndex(cleaned, ",") <= 2
    /\ Documented(<<"1",".","2","3","4",",","5","6">>,
                  <<"1","2","3","4",".","5","6">>)
    /\ Documented(<<"1",",","2","3","4",".","5","6">>,
                  <<"1","2","3","4",".","5","6">>)
    /\ Documented(<<"1",",","2","3","4">>, <<"1","2","3","4">>)
    /\ Documented(<<"1","2",",","5">>, <<"1","2",".","5">>)

\* A call has returned the result of a price mapping on '1.234,56': the
\* decimal 1234.56
C26_Witness ==
    /\ extraction.returned
    /\ \E k \in DOMAIN extraction.results :
          /\ extraction.results[k].field_type = "price"
          /\ extraction.results[k].raw_value
                = PyValue("str", <<"1",".","2","3","4",",","5","6">>)
          /\ extraction.results[k].processed_value
                = PyValue("Decimal", <<"1","2","3","4",".","5","6">>)

====
